---- MODULE Spec2Model ----
(***************************************************************************)
(* Metrics companion for an Unraid host: the WebSocket push server         *)
(* (ws-server/server.mjs) and the SSH pull path (src/preload.js).          *)
(*                                                                         *)
(* Specifications:                                                         *)
(*   Spec          the container inventory cache, its lazy full refresh,   *)
(*                 the docker event feed and the refresh-one tasks         *)
(*   SpecEvents    handleDockerEventLine applied to sample event lines     *)
(*   SpecAssembly  one snapshot assembly cycle (collectSnapshot/fetchStats)*)
(*   SpecListener  the life cycle of the docker events listener            *)
(*   SpecHealthy   the container inventory with every command succeeding   *)
(*   SpecVms       the VM list cache of getVmsSnapshot                     *)
(*   SpecNet       the byte-counter rate samplers of both transports       *)
(*   SpecCpu       collectCpuPercent over pairs of /proc/stat cpu lines    *)
(*   SpecPull      the pull-mode cache of stats:fetch                      *)
(*   SpecRefresh   the refresh interval: config, settings form, timers     *)
(*   SpecRenderer  the transport wiring of the renderer and its sockets    *)
(*   SpecRendererLive  SpecRenderer with reconnect timers that fire        *)
(*   SpecPush      the per-client tickers of the push server               *)
(*   SpecPushLive  SpecPush with cycles that resume when commands return   *)
(*   SpecNorm      the stats objects built by the two transports           *)
(*   SpecPorts     parseDockerPorts on the segments docker ps prints       *)
(*   SpecPullHosts stats:fetch while the config is pointed at another host *)
(*   SpecStore     config:get, config:edit, config:update and config.json  *)
(***************************************************************************)
EXTENDS Integers, Sequences, FiniteSets, Bags, TLC

(***************************************************************************)
(* Bounds of the model.                                                    *)
(***************************************************************************)
\* life-cycle moves the docker daemon makes in one behaviour
MaxMoves == 2
\* refresh-one tasks in flight at once when event lines arrive without end (SpecEvents)
MaxTasks == 1
\* listener children and restart timers alive at once (SpecListener)
MaxListeners == 4
\* clock advances in one behaviour (SpecVms)
MaxClockSteps == 3
\* getVmsSnapshot calls awaiting virsh at once (SpecVms)
MaxVmCalls == 2
\* stats:fetch requests awaiting fetchStats at once (SpecPull)
MaxFetches == 2
\* getContainersSnapshot calls (ticks of connected clients) in flight at once
MaxCalls == 2
\* sockets the renderer creates in one behaviour (SpecRenderer)
MaxSockets == 2
\* reconnect timers of the renderer pending at once (SpecRenderer)
MaxTimers == 1
\* seconds the push server runs in one behaviour (SpecPush)
MaxSeconds == 2
\* assembly cycles of one client in flight at once (SpecPush)
MaxCycles == 2

\* container ids known to the docker daemon, in the order docker ps lists them
IdOrder == <<"a", "b">>
Ids == {IdOrder[i] : i \in DOMAIN IdOrder}
\* a missing / empty id (falsy in JavaScript)
NoId == ""
\* status texts docker ps prints
Statuses == {"Up", "Exited"}

VARIABLES
    runtime,          \* docker daemon: id -> "absent" | status text
    moves,            \* life-cycle moves made so far
    feed,             \* docker events emitted, not yet handled by the listener
    containersCache,  \* server.mjs:19  {initialised, list, byId}
    refreshTasks,     \* bag of refreshSingleContainer calls in flight
    snapCalls,        \* bag of getContainersSnapshot calls inside fullContainersRefresh
    removedSince,     \* history: id -> a remove event was handled and no refresh-class event since
    fullRefreshes,    \* history: number of fullContainersRefresh executions started
    lastMut,          \* history: the last mutation of containersCache
    lastEvt,          \* history: the last event line handled and the path it took (SpecEvents)
    asm,              \* one assembly cycle: transport, faults injected, result
    listener,         \* docker events listener: children running, restart timers pending
    vm,               \* VM cache (server.mjs:25), its clock, polls in flight, last get()
    net,              \* a byte-counter rate sampler: stored sample, clock, counters, last result
    cpu,              \* collectCpuPercent: the two readings and the result
    pull,             \* stats:fetch (preload.js:200): statsCache, lastFetchTs, fetches in flight
    ui,               \* renderer.js: state, the sockets it created, its timers; the config
    push,             \* server.mjs:40 the connected clients, their tickers and cycles
    norm,             \* a WS snapshot and the stats object built from it
    ports,            \* parseDockerPorts: the segment parsed last and its result
    store             \* preload.js: the user config file, config, caches, the last IPC answer

cacheVars == <<runtime, moves, feed, containersCache, refreshTasks, snapCalls,
               removedSince, fullRefreshes, lastMut>>
\* state of the samplers and the VM cache
samplerVars == <<vm, net, cpu, pull>>
\* state of the renderer, of the push server's clients, of the snapshot conversion
clientVars == <<ui, push, norm>>
\* state of the port parser and of the config store
configVars == <<ports, store>>
\* state of the container inventory, the assembly cycle and the listener
inventoryVars == <<cacheVars, lastEvt, asm, listener>>
vars == <<runtime, moves, feed, containersCache, refreshTasks, snapCalls, removedSince,
          fullRefreshes, lastMut, lastEvt, asm, listener, samplerVars, clientVars, configVars>>

(***************************************************************************)
(* Text: a JavaScript string is a sequence of characters.                  *)
(***************************************************************************)
\* String.prototype.toLowerCase on one character
LowerChar(ch) ==
    CASE ch = "D" -> "d"
      [] ch = "E" -> "e"
      [] ch = "I" -> "i"
      [] ch = "O" -> "o"
      [] ch = "P" -> "p"
      [] ch = "S" -> "s"
      [] ch = "T" -> "t"
      [] ch = "W" -> "w"
      [] OTHER -> ch

toLowerCase(s) == [i \in DOMAIN s |-> LowerChar(s[i])]

\* String.prototype.includes
includes(s, t) ==
    \E i \in 0..(Len(s) - Len(t)) : \A k \in 1..Len(t) : s[i + k] = t[k]

(***************************************************************************)
(* Container objects and the cache operations.                             *)
(***************************************************************************)
\* one line of docker ps output; NoEntry stands for empty output
NoEntry == [ID |-> NoId, Status |-> ""]
\* the null returned by buildContainerFromPsAndInspect
NoObj == [id |-> NoId, status |-> "", running |-> FALSE, containerIp |-> FALSE]

\* a Map without keys
EmptyMap == [k \in {} |-> NoObj]
MapSet(m, k, v) == [x \in (DOMAIN m) \cup {k} |-> IF x = k THEN v ELSE m[x]]
MapDelete(m, k) == [x \in (DOMAIN m) \ {k} |-> m[x]]

\* status.toLowerCase().startsWith('up')
StartsWithUp(status) == status \in {"Up", "up", "UP"}

\* details: TRUE when docker inspect returned the container's network settings
buildContainerFromPsAndInspect(entry, details) ==
    IF entry.ID = NoId THEN NoObj
    ELSE [id |-> entry.ID,
          status |-> entry.Status,
          running |-> StartsWithUp(entry.Status),
          containerIp |-> details]

\* findIndex with a predicate that never matches
findIndex_NeverMatches(list, id) == 0

\* Array.prototype.findIndex: 0 when no element matches
findIndex(list, id) ==
    IF \E i \in DOMAIN list : list[i].id = id
    THEN CHOOSE i \in DOMAIN list :
             /\ list[i].id = id
             /\ \A j \in 1..(i - 1) : list[j].id # id
    ELSE 0

\* upsert that pushes without looking for the existing entry
upsertList_AlwaysPush(list, container) == Append(list, container)

upsertList(list, container) ==
    LET existingIndex == findIndex(list, container.id)
    IN  IF existingIndex >= 1
        THEN [list EXCEPT ![existingIndex] = container]
        ELSE Append(list, container)

upsertContainerInCache(cache, container) ==
    [cache EXCEPT !.list = upsertList(cache.list, container),
                  !.byId = IF container.id # NoId
                           THEN MapSet(cache.byId, container.id, container)
                           ELSE cache.byId]

\* remove that forgets the id-index
removeContainerFromCache_ListOnly(cache, id) ==
    IF id = NoId THEN cache
    ELSE [cache EXCEPT !.list = SelectSeq(cache.list, LAMBDA c : c.id # id)]

\* remove that does nothing
removeContainerFromCache_Noop(cache, id) == cache

removeContainerFromCache(cache, id) ==
    IF id = NoId THEN cache
    ELSE [cache EXCEPT !.list = SelectSeq(cache.list, LAMBDA c : c.id # id),
                       !.byId = MapDelete(cache.byId, id)]

\* ids appearing in the list, keys of the id-index
ListIds(cache) == {cache.list[i].id : i \in DOMAIN cache.list}
IndexIds(cache) == DOMAIN cache.byId
\* the cached object of id, NoObj when it has none
EntryOf(cache, id) == IF id \in DOMAIN cache.byId THEN cache.byId[id] ELSE NoObj
ListEntryOf(cache, id) ==
    IF id \in ListIds(cache) THEN cache.list[findIndex(cache.list, id)] ELSE NoObj

(***************************************************************************)
(* Docker events: one parsed line of `docker events --format '{{json .}}'`.*)
(* json is FALSE for a line JSON.parse rejects (or parses to a falsy        *)
(* value); Type, id, ID, ActorID are "" and status, Action are <<>> when    *)
(* the field is missing.                                                    *)
(***************************************************************************)
kw_create == <<"c", "r", "e", "a", "t", "e">>
kw_start == <<"s", "t", "a", "r", "t">>
kw_restart == <<"r", "e", "s", "t", "a", "r", "t">>
kw_rename == <<"r", "e", "n", "a", "m", "e">>
kw_unpause == <<"u", "n", "p", "a", "u", "s", "e">>
kw_pause == <<"p", "a", "u", "s", "e">>
kw_die == <<"d", "i", "e">>
kw_stop == <<"s", "t", "o", "p">>
kw_destroy == <<"d", "e", "s", "t", "r", "o", "y">>
kw_remove == <<"r", "e", "m", "o", "v", "e">>

Line(type, id, action) ==
    [json |-> TRUE, Type |-> type, id |-> id, ID |-> NoId, ActorID |-> id,
     status |-> action, Action |-> action]

\* evt.id || evt.ID || (evt.Actor && evt.Actor.ID)
EventId(evt) ==
    IF evt.id # NoId THEN evt.id
    ELSE IF evt.ID # NoId THEN evt.ID
    ELSE evt.ActorID

\* the action compared as written, without toLowerCase
EventAction_CaseSensitive(evt) ==
    IF evt.status # <<>> THEN evt.status ELSE evt.Action

\* String(evt.status || evt.Action || '').toLowerCase()
EventAction(evt) ==
    toLowerCase(IF evt.status # <<>> THEN evt.status ELSE evt.Action)

IsRefreshAction(action) ==
    \/ includes(action, kw_create)
    \/ includes(action, kw_start)
    \/ includes(action, kw_restart)
    \/ includes(action, kw_rename)
    \/ includes(action, kw_unpause)
    \/ includes(action, kw_pause)
    \/ includes(action, kw_die)
    \/ includes(action, kw_stop)

IsRemoveAction(action) ==
    \/ includes(action, kw_destroy)
    \/ includes(action, kw_remove)

\* the branch handleDockerEventLine takes: "refresh" calls refreshSingleContainer(id),
\* "remove" calls removeContainerFromCache(id), "ignore" returns without either
EventPath(line) ==
    IF ~line.json THEN "ignore"
    ELSE IF line.Type # "" /\ line.Type # "container" THEN "ignore"
    ELSE IF EventId(line) = NoId \/ EventAction(line) = <<>> THEN "ignore"
    ELSE IF IsRefreshAction(EventAction(line)) THEN "refresh"
    ELSE IF IsRemoveAction(EventAction(line)) THEN "remove"
    ELSE "ignore"

(***************************************************************************)
(* History bookkeeping shared by the cache mutations.                      *)
(***************************************************************************)
NoMut == [kind |-> "none", id |-> NoId, rep |-> FALSE]

\* the record of a mutation: rep says it is an upsert of the very object the
\* immediately preceding mutation upserted (which is then the cached one)
Mutation(kind, id, obj) ==
    [kind |-> kind, id |-> id,
     rep |-> /\ kind = "upsert"
             /\ lastMut.kind = "upsert"
             /\ lastMut.id = id
             /\ EntryOf(containersCache, id) = obj]

\* a full refresh that has read its bulk listing and not yet swapped notes an
\* event-driven mutation of id
Mark(c, id) == IF c.pc = "inspect" THEN [c EXCEPT !.dirty = @ \cup {id}] ELSE c

\* how many of the calls in S become e when marked
RECURSIVE CopiesOf(_, _, _, _)
CopiesOf(calls, id, e, S) ==
    IF S = {} THEN 0
    ELSE LET c == CHOOSE y \in S : TRUE
         IN  (IF Mark(c, id) = e THEN calls[c] ELSE 0) + CopiesOf(calls, id, e, S \ {c})

\* every full refresh in flight notes the mutation
MarkDirty(calls, id) ==
    [e \in {Mark(c, id) : c \in BagToSet(calls)} |->
        CopiesOf(calls, id, e, BagToSet(calls))]

\* ids a swap to cache `new` takes an event-driven state away from
Lost(call, new) ==
    {id \in call.dirty : EntryOf(new, id) # EntryOf(containersCache, id)}

(***************************************************************************)
(* The docker daemon: container life cycle and the commands' output.  A    *)
(* command's output is what the daemon holds when the command completes.   *)
(***************************************************************************)
\* life-cycle moves of a container and the event each one emits
\* (a created or stopped container is listed with a status that is not "Up")
Lifecycle ==
    {[from |-> "absent", to |-> "Exited", action |-> kw_create],
     [from |-> "Exited", to |-> "Up", action |-> kw_start],
     [from |-> "Up", to |-> "Exited", action |-> kw_die],
     [from |-> "Exited", to |-> "absent", action |-> kw_destroy]}

\* docker ps -a --format '{{json .}}' --no-trunc: one entry per container
Listing(rt) ==
    LET present == SelectSeq(IdOrder, LAMBDA i : rt[i] # "absent")
    IN  [k \in DOMAIN present |-> [ID |-> present[k], Status |-> rt[present[k]]]]

\* docker ps -a --no-trunc --filter id=<id>: the first line, NoEntry when none
ListingOne(rt, id) ==
    IF rt[id] = "absent" THEN NoEntry ELSE [ID |-> id, Status |-> rt[id]]

\* a container changes state; the daemon writes the event to the feed
DaemonChange(id) ==
    /\ moves < MaxMoves
    /\ moves' = moves + 1
    /\ \E move \in Lifecycle :
          /\ runtime[id] = move.from
          /\ runtime' = [runtime EXCEPT ![id] = move.to]
          /\ feed' = Append(feed, Line("container", id, move.action))
    /\ UNCHANGED <<containersCache, refreshTasks, snapCalls, removedSince,
                   fullRefreshes, lastMut, lastEvt, asm, listener, samplerVars, clientVars, configVars>>

(***************************************************************************)
(* handleDockerEventLine (server.mjs:429-464).                             *)
(***************************************************************************)
NewTask(id) == [id |-> id, pc |-> "ps", entry |-> NoEntry]

\* the effect of one event line on the cache and the tasks
handleDockerEventLine(line) ==
    LET path == EventPath(line)
        id == EventId(line)
    IN  CASE path = "refresh" ->
              \* refreshSingleContainer(id) is started and not awaited
              /\ refreshTasks' = refreshTasks (+) SetToBag({NewTask(id)})
              /\ removedSince' = [removedSince EXCEPT ![id] = FALSE]
              /\ UNCHANGED <<containersCache, snapCalls, lastMut>>
          [] path = "remove" ->
              /\ containersCache' = removeContainerFromCache(containersCache, id)
              /\ lastMut' = Mutation("remove", id, NoObj)
              /\ snapCalls' = MarkDirty(snapCalls, id)
              /\ removedSince' = [removedSince EXCEPT ![id] = TRUE]
              /\ UNCHANGED refreshTasks
          [] OTHER ->
              UNCHANGED <<containersCache, refreshTasks, snapCalls, removedSince,
                          lastMut>>

\* the listener reads the next line of the feed (server.mjs:396-405)
DockerEvent ==
    /\ feed # <<>>
    /\ handleDockerEventLine(Head(feed))
    /\ feed' = Tail(feed)
    /\ UNCHANGED <<runtime, moves, fullRefreshes, lastEvt, asm, listener, samplerVars, clientVars, configVars>>

(***************************************************************************)
(* refreshSingleContainer (server.mjs:267-298), one action per await.      *)
(***************************************************************************)
\* the continuation after `await execAsync(docker ps ...)`: the command failed
\* (catch: logged), printed nothing (container gone: removed from the cache), or
\* printed the entry (docker inspect is issued)
RefreshPs(t, out) ==
    /\ t.pc = "ps"
    /\ LET entry == IF out = "line" THEN ListingOne(runtime, t.id) ELSE NoEntry
       IN  CASE out = "error" ->
                 /\ refreshTasks' = refreshTasks (-) SetToBag({t})
                 /\ UNCHANGED <<containersCache, snapCalls, lastMut>>
             [] out # "error" /\ entry = NoEntry ->
                 /\ containersCache' = removeContainerFromCache(containersCache, t.id)
                 /\ lastMut' = Mutation("gone", t.id, NoObj)
                 /\ snapCalls' = MarkDirty(snapCalls, t.id)
                 /\ refreshTasks' = refreshTasks (-) SetToBag({t})
             [] OTHER ->
                 /\ refreshTasks' = (refreshTasks (-) SetToBag({t})) (+)
                        SetToBag({[t EXCEPT !.pc = "inspect", !.entry = entry]})
                 /\ UNCHANGED <<containersCache, snapCalls, lastMut>>
    /\ UNCHANGED <<runtime, moves, feed, removedSince, fullRefreshes,
                   lastEvt, asm, listener, samplerVars, clientVars, configVars>>

RefreshPsDone(t) == \E out \in {"error", "empty", "line"} : RefreshPs(t, out)

\* the continuation after `await execAsync(docker inspect ...)`: details are null
\* when the command failed or the container is gone by now
RefreshInspectDone(t) ==
    /\ t.pc = "inspect"
    /\ \E ok \in BOOLEAN :
          LET details == ok /\ runtime[t.entry.ID] # "absent"
              obj == buildContainerFromPsAndInspect(t.entry, details)
          IN  IF obj = NoObj
              THEN UNCHANGED <<containersCache, snapCalls, lastMut>>
              ELSE /\ containersCache' = upsertContainerInCache(containersCache, obj)
                   /\ lastMut' = Mutation("upsert", obj.id, obj)
                   /\ snapCalls' = MarkDirty(snapCalls, obj.id)
    /\ refreshTasks' = refreshTasks (-) SetToBag({t})
    /\ UNCHANGED <<runtime, moves, feed, removedSince, fullRefreshes,
                   lastEvt, asm, listener, samplerVars, clientVars, configVars>>

(***************************************************************************)
(* getContainersSnapshot / fullContainersRefresh (server.mjs:204-265),     *)
(* one action per await.  A call is one tick's getContainersSnapshot().    *)
(***************************************************************************)
NewCall == [pc |-> "ps", entries |-> <<>>, dirty |-> {}]

\* the list and the id-index the refresh builds from its entries (server.mjs:246-257)
BuildList(entries, inspectMap) ==
    LET built == [k \in DOMAIN entries |->
                     buildContainerFromPsAndInspect(entries[k], inspectMap[entries[k].ID])]
    IN  SelectSeq(built, LAMBDA obj : obj # NoObj)

BuildIndex(list) ==
    [id \in {list[i].id : i \in DOMAIN list} |->
        list[CHOOSE i \in DOMAIN list :
                 /\ list[i].id = id
                 /\ \A j \in (i + 1)..Len(list) : list[j].id # id]]

\* getContainersSnapshot: a full refresh is started unless the cache is initialised
getContainersSnapshot ==
    /\ BagCardinality(snapCalls) < MaxCalls
    /\ IF containersCache.initialised
       THEN UNCHANGED <<snapCalls, fullRefreshes>>
       ELSE /\ snapCalls' = snapCalls (+) SetToBag({NewCall})
            /\ fullRefreshes' = fullRefreshes + 1
    /\ UNCHANGED <<runtime, moves, feed, containersCache, refreshTasks, removedSince,
                   lastMut, lastEvt, asm, listener, samplerVars, clientVars, configVars>>

\* the continuation after `await execAsync(docker ps -a ...)`: the command failed
\* (catch: containersCache.initialised = true), printed nothing (an empty cache
\* is swapped in), or printed the listing (inspectContainers(ids) is awaited)
FullRefreshPsDone(c) ==
    /\ c.pc = "ps"
    /\ \E out \in {"error", "empty", "list"} :
          LET entries == IF out = "list" THEN Listing(runtime) ELSE <<>>
              new == [initialised |-> TRUE, list |-> <<>>, byId |-> EmptyMap]
          IN  CASE out = "error" ->
                    /\ containersCache' = [containersCache EXCEPT !.initialised = TRUE]
                    /\ lastMut' = Mutation("full", NoId, NoObj)
                    /\ snapCalls' = snapCalls (-) SetToBag({c})
                [] out # "error" /\ entries = <<>> ->
                    /\ containersCache' = new
                    /\ lastMut' = Mutation("full", NoId, NoObj)
                    /\ snapCalls' = snapCalls (-) SetToBag({c})
                [] OTHER ->
                    /\ snapCalls' = (snapCalls (-) SetToBag({c})) (+)
                           SetToBag({[pc |-> "inspect", entries |-> entries, dirty |-> {}]})
                    /\ UNCHANGED <<containersCache, lastMut>>
    /\ UNCHANGED <<runtime, moves, feed, refreshTasks, removedSince, fullRefreshes,
                   lastEvt, asm, listener, samplerVars, clientVars, configVars>>

\* the continuation after `await inspectContainers(ids)`: the list and the id-index
\* are built and swapped in (server.mjs:246-259)
FullRefreshInspectDone(c) ==
    /\ c.pc = "inspect"
    /\ \E ok \in BOOLEAN :
          LET inspectMap == [id \in Ids |-> ok /\ runtime[id] # "absent"]
              list == BuildList(c.entries, inspectMap)
          IN  containersCache' =
                  [initialised |-> TRUE, list |-> list, byId |-> BuildIndex(list)]
    /\ lastMut' = Mutation("full", NoId, NoObj)
    /\ snapCalls' = snapCalls (-) SetToBag({c})
    /\ UNCHANGED <<runtime, moves, feed, refreshTasks, removedSince, fullRefreshes,
                   lastEvt, asm, listener, samplerVars, clientVars, configVars>>

(***************************************************************************)
(* getVmsSnapshot / collectVmStats (server.mjs:468-516).                   *)
(***************************************************************************)
\* const VM_CACHE_MS = 60_000
VM_CACHE_MS == 60000
\* Date.now() when the module is loaded (ms)
BootTime == 1000000
\* the clock moves by one tick period or by just under the threshold
ClockSteps == {1000, VM_CACHE_MS - 1000}
\* VM lists virsh can print (names), the empty list included
VmLists == {<<>>, <<"w">>, <<"w", "x">>}
\* outcomes of execAsync('virsh list --all || true')
VirshOutcomes ==
    {"listed",      \* virsh prints its table
     "virsh_fail",  \* virsh exits non-zero: '|| true' leaves an empty stdout
     "exec_fail"}   \* execAsync rejects (the shell cannot be run, output too large)

\* let vmsCache = { ts: 0, value: [] }; no get() yet
VmBoot ==
    [clock |-> BootTime, steps |-> 0, hyper |-> <<"w">>,
     cache |-> [ts |-> 0, value |-> <<>>],
     calls |-> {},
     last |-> [kind |-> "none", out |-> "none", value |-> <<>>]]

\* now - vmsCache.ts < VM_CACHE_MS, negated (always stale)
IsFresh_Never(cache, now) == FALSE

\* now - vmsCache.ts < VM_CACHE_MS
IsFresh(cache, now) == now - cache.ts < VM_CACHE_MS

\* collectVmStats: the parsed table, [] when stdout is empty; "throws" when exec rejects
collectVmStats(out, hyper) ==
    CASE out = "listed" -> hyper
      [] out = "virsh_fail" -> <<>>
      [] OTHER -> "throws"

\* time passes
ClockAdvance ==
    /\ vm.steps < MaxClockSteps
    /\ \E d \in ClockSteps :
          vm' = [vm EXCEPT !.clock = @ + d, !.steps = @ + 1]
    /\ UNCHANGED <<inventoryVars, clientVars, configVars, net, cpu, pull>>

\* VMs are defined or undefined on the hypervisor
HypervisorChange ==
    /\ \E l \in VmLists \ {vm.hyper} : vm' = [vm EXCEPT !.hyper = l]
    /\ UNCHANGED <<inventoryVars, clientVars, configVars, net, cpu, pull>>

\* getVmsSnapshot() up to its await: the cached value is returned, or a poll starts
getVmsSnapshot ==
    /\ vm.clock \notin vm.calls
    /\ Cardinality(vm.calls) < MaxVmCalls
    /\ IF IsFresh(vm.cache, vm.clock)
       THEN vm' = [vm EXCEPT !.last = [kind |-> "cached", out |-> "none",
                                       value |-> vm.cache.value]]
       ELSE vm' = [vm EXCEPT !.calls = @ \cup {vm.clock},
                             !.last = [kind |-> "polling", out |-> "none",
                                       value |-> <<>>]]
    /\ UNCHANGED <<inventoryVars, clientVars, configVars, net, cpu, pull>>

\* the continuation after `await collectVmStats()` of the get() that started at `now`
VmPollDone(now, out) ==
    /\ now \in vm.calls
    /\ LET vms == collectVmStats(out, vm.hyper)
       IN  IF vms = "throws"
           THEN vm' = [vm EXCEPT !.calls = @ \ {now},
                                 !.last = [kind |-> "stale", out |-> out,
                                           value |-> vm.cache.value]]
           ELSE vm' = [vm EXCEPT !.calls = @ \ {now},
                                 !.cache = [ts |-> now, value |-> vms],
                                 !.last = [kind |-> "polled", out |-> out, value |-> vms]]
    /\ UNCHANGED <<inventoryVars, clientVars, configVars, net, cpu, pull>>

NextVms ==
    \/ ClockAdvance
    \/ HypervisorChange
    \/ getVmsSnapshot
    \/ \E now \in vm.calls, out \in VirshOutcomes : VmPollDone(now, out)

(***************************************************************************)
(* Rates from cumulative byte counters: collectNetworkStats of server.mjs  *)
(* (136-167, "ws"), collectNetworkStats of preload.js (474-519, "ssh") and *)
(* the per-container rates of collectDockerRuntimeStats (preload.js        *)
(* 601-668, "docker").  Only the rx counter is carried: tx is computed by  *)
(* the same expressions.  A rate is kept in bits per ms (Mbps * 1000).     *)
(***************************************************************************)
Samplers == {"ws", "ssh", "docker"}
\* series keys: interface names, or container ids for "docker"
Keys == {"eth0", "br0"}
\* the first key is the one configured at start
FirstKey == "eth0"
\* counter values (bytes)
Bytes == {0, 375000, 750000}
\* Date.now() between two samples: set back, not advanced, one tick later
NetClockSteps == {0 - 1000, 0, 1000}
\* rxMbps = null
NoRate == [null |-> TRUE, v |-> 0]
\* rxMbps = a number
Rate(v) == [null |-> FALSE, v |-> v]
\* lastNet = null / lastNetSample = null / no entry of lastDockerStats.perContainer
NoSample == [key |-> "", rx |-> 0, ts |-> 0]

Max2(a, b) == IF a > b THEN a ELSE b

\* lastNet && lastNet.iface === INTERFACE, without the comparison of names
SameSeries_AnyKey(last, key) == last # NoSample

\* lastNet && lastNet.iface === INTERFACE
SameSeries(last, key) == last # NoSample /\ last.key = key

\* server.mjs:147-158
wsRate(last, key, rx, now) ==
    LET ms == now - last.ts
    IN  IF SameSeries(last, key) /\ ms > 0
        THEN Rate(((rx - last.rx) * 8) \div ms)
        ELSE NoRate

\* preload.js:490-503
sshRate(last, key, rx, now) ==
    LET deltaMs == Max2(now - last.ts, 1)
        rxDelta == Max2(rx - last.rx, 0)
    IN  IF SameSeries(last, key) /\ deltaMs > 0
        THEN Rate((rxDelta * 8) \div deltaMs)
        ELSE NoRate

\* preload.js:624-637
dockerRate(last, key, rx, now) ==
    LET ms == now - last.ts
    IN  IF last.ts # 0 /\ SameSeries(last, key) /\ ms > 0
        THEN Rate(((rx - last.rx) * 8) \div ms)
        ELSE NoRate

\* the rate a sampler reports
RateOf(kind, last, key, rx, now) ==
    CASE kind = "ws" -> wsRate(last, key, rx, now)
      [] kind = "ssh" -> sshRate(last, key, rx, now)
      [] OTHER -> dockerRate(last, key, rx, now)

\* one sampler at start: nothing stored, nothing reported
NetBoot(kind) ==
    [kind |-> kind, clock |-> BootTime, steps |-> 0, key |-> FirstKey,
     rx |-> [k \in Keys |-> 0],
     lastNet |-> NoSample,
     pending |-> "",
     out |-> [n |-> 0, rate |-> NoRate, key |-> "", prev |-> NoSample, now |-> 0]]

\* the sample is taken: the rate is computed, then the stored sample is overwritten
\* (server.mjs:158, preload.js:505-510, preload.js:665)
TakeSample(n, key) ==
    [n EXCEPT !.lastNet = [key |-> key, rx |-> n.rx[key], ts |-> n.clock],
              !.pending = "",
              !.out = [n |-> Max2(n.out.n, 1),
                       rate |-> RateOf(n.kind, n.lastNet, key, n.rx[key], n.clock),
                       key |-> key, prev |-> n.lastNet, now |-> n.clock]]

\* Date.now() moves
NetClock ==
    /\ net.steps < MaxClockSteps
    /\ \E d \in NetClockSteps : net' = [net EXCEPT !.clock = @ + d, !.steps = @ + 1]
    /\ UNCHANGED <<inventoryVars, clientVars, configVars, vm, cpu, pull>>

\* the kernel's counter moves: traffic, or a reset / wrap to a lower value
CounterMove ==
    /\ \E k \in Keys :
          \E b \in Bytes \ {net.rx[k]} : net' = [net EXCEPT !.rx[k] = b]
    /\ UNCHANGED <<inventoryVars, clientVars, configVars, vm, cpu, pull>>

\* config:update / the config file watcher (preload.js:222-234, 267-282):
\* the configured interface may change; lastNetSample = null
ConfigReload ==
    /\ net.kind = "ssh"
    /\ \E k \in Keys : net' = [net EXCEPT !.key = k, !.lastNet = NoSample]
    /\ UNCHANGED <<inventoryVars, clientVars, configVars, vm, cpu, pull>>

\* "docker": another container is the one listed by docker stats
OtherContainer ==
    /\ net.kind = "docker"
    /\ \E k \in Keys \ {net.key} : net' = [net EXCEPT !.key = k]
    /\ UNCHANGED <<inventoryVars, clientVars, configVars, vm, cpu, pull>>

\* "ssh": collectNetworkStats reads the configured name and awaits the command
NetSampleStart ==
    /\ net.kind = "ssh"
    /\ net.pending = ""
    /\ net' = [net EXCEPT !.pending = net.key]
    /\ UNCHANGED <<inventoryVars, clientVars, configVars, vm, cpu, pull>>

\* "ssh": the continuation after `await runCommand(conn, command)`
NetSampleDone ==
    /\ net.kind = "ssh"
    /\ net.pending # ""
    /\ net' = TakeSample(net, net.pending)
    /\ UNCHANGED <<inventoryVars, clientVars, configVars, vm, cpu, pull>>

\* "ws" and "docker": the counters are read and the rate computed in one step
NetSample ==
    /\ net.kind # "ssh"
    /\ net' = TakeSample(net, net.key)
    /\ UNCHANGED <<inventoryVars, clientVars, configVars, vm, cpu, pull>>

NextNet ==
    \/ NetClock
    \/ CounterMove
    \/ ConfigReload
    \/ OtherContainer
    \/ NetSampleStart
    \/ NetSampleDone
    \/ NetSample

(***************************************************************************)
(* collectCpuPercent / parseCpuLine (server.mjs:113-132; the same code in  *)
(* preload.js:411-419, 895-905).  A percentage is kept in hundredths.      *)
(***************************************************************************)
\* a field of the cpu line after Number(): a tick count, or NaN
Tokens == {[finite |-> TRUE, n |-> 0], [finite |-> TRUE, n |-> 2],
           [finite |-> FALSE, n |-> 0]}
\* the fields after the "cpu" label: user nice system idle iowait; or none
CpuLines == [1..5 -> Tokens] \cup {<<>>}

\* values[i] || 0
OrZero(values, i) ==
    IF i \in DOMAIN values /\ values[i].finite THEN values[i].n ELSE 0

RECURSIVE SumFinite(_, _)
\* values.reduce((sum, v) => sum + (Number.isFinite(v) ? v : 0), 0), from field i on
SumFinite(values, i) ==
    IF i > Len(values) THEN 0
    ELSE (IF values[i].finite THEN values[i].n ELSE 0) + SumFinite(values, i + 1)

parseCpuLine(values) ==
    [idle |-> OrZero(values, 4) + OrZero(values, 5), total |-> SumFinite(values, 1)]

\* clamp without its bounds
clamp_None(v, min, max) == v

\* Math.min(Math.max(v, min), max); v is finite wherever it is used
clamp(v, min, max) ==
    IF v < min THEN min ELSE IF v > max THEN max ELSE v

\* totalDelta === 0 ? 0 : (1 - idleDelta / totalDelta) * 100, in hundredths
Usage(first, second) ==
    LET idleDelta == second.idle - first.idle
        totalDelta == second.total - first.total
        num == IF totalDelta < 0 THEN idleDelta - totalDelta ELSE totalDelta - idleDelta
        den == IF totalDelta < 0 THEN 0 - totalDelta ELSE totalDelta
    IN  IF totalDelta = 0 THEN 0 ELSE (10000 * num) \div den

NoReading == [idle |-> 0, total |-> 0]

CpuIdle ==
    [pc |-> "idle", first |-> NoReading, second |-> NoReading, usage |-> 0, percent |-> 0]

\* the first reading, then the 400 ms wait
CpuFirstRead ==
    /\ cpu.pc # "waiting"
    /\ \E line \in CpuLines :
          cpu' = [CpuIdle EXCEPT !.pc = "waiting", !.first = parseCpuLine(line)]
    /\ UNCHANGED <<inventoryVars, clientVars, configVars, vm, net, pull>>

\* the second reading and the result
CpuSecondRead ==
    /\ cpu.pc = "waiting"
    /\ \E line \in CpuLines :
          LET second == parseCpuLine(line)
              usage == Usage(cpu.first, second)
          IN  cpu' = [cpu EXCEPT !.pc = "done", !.second = second, !.usage = usage,
                                 !.percent = clamp(usage, 0, 10000)]
    /\ UNCHANGED <<inventoryVars, clientVars, configVars, vm, net, pull>>

NextCpu == CpuFirstRead \/ CpuSecondRead

(***************************************************************************)
(* ipcMain.handle('stats:fetch') (preload.js:200-216).                     *)
(***************************************************************************)
\* const MIN_REFRESH_MS = 5_000
MIN_REFRESH_MS == 5000
\* config.refreshIntervalSeconds: unset (0), below the floor, above it
RefreshSettings == {0, 1, 10}
\* Date.now() between two requests
PullClockSteps == {1000, 4000, 25000}
\* config.host: the server fetchStats connects to
PullHosts == {"tower", "backup"}
\* let statsCache = null
NoStats == [at |-> 0, host |-> "none"]

\* Math.max(MIN_REFRESH_MS, (config.refreshIntervalSeconds || 30) * 1000)
intervalMs(seconds) == Max2(MIN_REFRESH_MS, (IF seconds = 0 THEN 30 ELSE seconds) * 1000)

\* the cache test without the force flag
UseCache_IgnoresForce(force, p) ==
    p.statsCache # NoStats /\ p.clock - p.lastFetchTs < intervalMs(p.seconds)

\* !force && statsCache && Date.now() - lastFetchTs < intervalMs
UseCache(force, p) ==
    ~force /\ p.statsCache # NoStats /\ p.clock - p.lastFetchTs < intervalMs(p.seconds)

PullBoot ==
    [clock |-> BootTime, steps |-> 0, seconds |-> 0, host |-> "tower",
     statsCache |-> NoStats, lastFetchTs |-> 0,
     fetches |-> {}, hosts |-> <<>>, started |-> 0,
     reply |-> [kind |-> "none", cached |-> FALSE, stats |-> NoStats]]

\* time passes
PullClock ==
    /\ pull.steps < MaxClockSteps
    /\ \E d \in PullClockSteps : pull' = [pull EXCEPT !.clock = @ + d, !.steps = @ + 1]
    /\ UNCHANGED <<inventoryVars, clientVars, configVars, vm, net, cpu>>

\* config:update / the config file watcher: config reloaded with the refresh
\* interval written, statsCache = null
PullConfigReload ==
    /\ \E sec \in RefreshSettings :
          pull' = [pull EXCEPT !.seconds = sec, !.statsCache = NoStats]
    /\ UNCHANGED <<inventoryVars, clientVars, configVars, vm, net, cpu>>

\* config:update / the config file watcher: config reloaded with another host
\* written, statsCache = null
PullHostChange ==
    /\ \E h \in PullHosts \ {pull.host} :
          pull' = [pull EXCEPT !.host = h, !.statsCache = NoStats]
    /\ UNCHANGED <<inventoryVars, clientVars, configVars, vm, net, cpu>>

\* the handler up to its await: the cached stats are returned, or fetchStats() starts
StatsFetch(force) ==
    /\ pull.clock \notin pull.fetches
    /\ Cardinality(pull.fetches) < MaxFetches
    /\ IF UseCache(force, pull)
       THEN pull' = [pull EXCEPT !.started = 0,
                                 !.reply = [kind |-> "reply", cached |-> TRUE,
                                            stats |-> pull.statsCache]]
       ELSE pull' = [pull EXCEPT !.fetches = @ \cup {pull.clock},
                                 !.hosts = [a \in pull.fetches \cup {pull.clock} |->
                                              IF a = pull.clock THEN pull.host ELSE @[a]],
                                 !.started = 1,
                                 !.reply = [kind |-> "pending", cached |-> FALSE,
                                            stats |-> NoStats]]
    /\ UNCHANGED <<inventoryVars, clientVars, configVars, vm, net, cpu>>

\* the continuation with a catch around the await that caches an empty result
StatsFetchDone_CachesFailure(at, ok) ==
    /\ at \in pull.fetches
    /\ pull' = [pull EXCEPT !.fetches = @ \ {at},
                            !.hosts = [a \in pull.fetches \ {at} |-> pull.hosts[a]],
                            !.statsCache = IF ok THEN [at |-> at, host |-> pull.hosts[at]]
                                           ELSE NoStats,
                            !.lastFetchTs = pull.clock,
                            !.reply = [kind |-> IF ok THEN "reply" ELSE "rejected",
                                       cached |-> FALSE,
                                       stats |-> IF ok THEN [at |-> at, host |-> pull.hosts[at]]
                                                 ELSE NoStats]]
    /\ UNCHANGED <<inventoryVars, clientVars, configVars, vm, net, cpu>>

\* the continuation after `await fetchStats()` of the request that started at `at`:
\* the stats come from the host the config named when fetchStats() was called
StatsFetchDone(at, ok) ==
    /\ at \in pull.fetches
    /\ LET stats == [at |-> at, host |-> pull.hosts[at]]
           left == [a \in pull.fetches \ {at} |-> pull.hosts[a]]
       IN  IF ok
           THEN pull' = [pull EXCEPT !.fetches = @ \ {at},
                                     !.hosts = left,
                                     !.statsCache = stats,
                                     !.lastFetchTs = pull.clock,
                                     !.reply = [kind |-> "reply", cached |-> FALSE,
                                                stats |-> stats]]
           ELSE pull' = [pull EXCEPT !.fetches = @ \ {at},
                                     !.hosts = left,
                                     !.reply = [kind |-> "rejected", cached |-> FALSE,
                                                stats |-> NoStats]]
    /\ UNCHANGED <<inventoryVars, clientVars, configVars, vm, net, cpu>>

NextPull ==
    \/ PullClock
    \/ PullConfigReload
    \/ \E force \in BOOLEAN : StatsFetch(force)
    \/ \E at \in pull.fetches, ok \in BOOLEAN : StatsFetchDone(at, ok)

NextPullHosts ==
    \/ PullClock
    \/ PullHostChange
    \/ \E force \in BOOLEAN : StatsFetch(force)
    \/ \E at \in pull.fetches, ok \in BOOLEAN : StatsFetchDone(at, ok)

(***************************************************************************)
(* The renderer (public/renderer.js): its state object, the WebSockets it  *)
(* created, its timers, and the config of the main process it reads.       *)
(***************************************************************************)
\* values of refreshIntervalSeconds: negative, 0, below the floor, the floor, the default
RefreshValues == {0 - 3, 0, 4, 5, 30}
\* wsUrl: empty, a URL new WebSocket() accepts, a URL it throws a SyntaxError on
NoUrl == ""
GoodUrl == "ws://nas:8510"
BadUrl == "nas:8510"
Urls == {NoUrl, GoodUrl, BadUrl}
Transports == {"ssh", "ws"}
\* the config of the main process after loadConfig()
Configs == [refresh : RefreshValues, transport : Transports, wsUrl : Urls]
DEFAULT_CONFIG == [refresh |-> 30, transport |-> "ssh", wsUrl |-> NoUrl]
\* configs and payloads that differ in the refresh interval only
RefreshConfigs == {c \in Configs : c.transport = "ssh" /\ c.wsUrl = NoUrl}
\* configs and payloads that differ in the transport and the URL only
WireConfigs == {c \in Configs : c.refresh = 30}
\* the payload handleSettingsSubmit builds: refreshIntervalSeconds only when the field is filled in
Payloads == [hasRefresh : BOOLEAN, refresh : RefreshValues, transport : Transports, wsUrl : Urls]

\* sockets the renderer creates in one behaviour
SocketIds == 1..MaxSockets
NoSocket == 0
\* readyState of a socket, "unborn" before new WebSocket()
ReadyStates == {"unborn", "connecting", "open", "closing", "closed"}
Live == {"connecting", "open"}

\* the step the renderer took last
Step(u, op, s) ==
    [u EXCEPT !.last = [op |-> op, sock |-> s, scheduled |-> FALSE, fetch |-> FALSE,
                        force |-> FALSE, ms |-> 0, ok |-> TRUE]]

RendererBoot ==
    [config |-> DEFAULT_CONFIG,
     transport |-> "ssh", wsUrl |-> NoUrl, ws |-> NoSocket,
     refreshInterval |-> 30, refreshTimer |-> 0,
     sock |-> [s \in SocketIds |-> "unborn"],
     timers |-> 0,
     flow |-> "boot", hydrated |-> FALSE,
     last |-> [op |-> "boot", sock |-> NoSocket, scheduled |-> FALSE, fetch |-> FALSE,
               force |-> FALSE, ms |-> 0, ok |-> TRUE]]

\* ids free for a new socket: never used, or of a socket that is closed
FreeIds(u) == {s \in SocketIds : u.sock[s] \in {"unborn", "closed"}}
\* the socket new WebSocket() returns
NewSocket(u) == CHOOSE s \in FreeIds(u) : \A r \in FreeIds(u) : s <= r
CanConnect(u) == FreeIds(u) # {}

\* connectWebSocket
connectWebSocket(u) ==
    IF u.wsUrl = NoUrl THEN u
    ELSE LET a == IF u.ws # NoSocket
                  THEN [u EXCEPT !.sock[u.ws] = IF @ \in Live THEN "closing" ELSE @,
                                 !.ws = NoSocket]
                  ELSE u
         IN  IF a.wsUrl = BadUrl THEN a
             ELSE [a EXCEPT !.sock[NewSocket(a)] = "connecting", !.ws = NewSocket(a)]

\* ws.onclose without the transport test
onclose_AnyTransport(u) ==
    [u EXCEPT !.ws = NoSocket, !.timers = @ + 1, !.last.scheduled = TRUE]

\* ws.onclose
onclose(u) ==
    IF u.transport = "ws" /\ u.wsUrl # NoUrl
    THEN [u EXCEPT !.ws = NoSocket, !.timers = @ + 1, !.last.scheduled = TRUE]
    ELSE [u EXCEPT !.ws = NoSocket]

\* startAutoRefresh without the floor
startAutoRefresh_NoFloor(u) == [u EXCEPT !.refreshTimer = u.refreshInterval * 1000]

\* startAutoRefresh
startAutoRefresh(u) == [u EXCEPT !.refreshTimer = Max2(u.refreshInterval, 5) * 1000]

\* refreshStats without the transport test
refreshStats_AlwaysFetches(u, force) ==
    [u EXCEPT !.last.fetch = TRUE, !.last.force = force,
              !.last.ms = intervalMs(u.config.refresh)]

\* refreshStats up to its await; the main process applies intervalMs to the request
refreshStats(u, force) ==
    IF u.transport = "ws"
    THEN IF u.ws = NoSocket /\ u.wsUrl # NoUrl THEN connectWebSocket(u) ELSE u
    ELSE [u EXCEPT !.last.fetch = TRUE, !.last.force = force,
                   !.last.ms = intervalMs(u.config.refresh)]

\* hydrateConfig after `await window.companion.getConfig()`
hydrateConfig(u) ==
    LET c == u.config
        a == [u EXCEPT !.refreshInterval = IF c.refresh # 0 THEN c.refresh ELSE @,
                       !.transport = c.transport,
                       !.wsUrl = c.wsUrl,
                       !.hydrated = TRUE]
    IN  IF a.transport = "ws" /\ a.wsUrl # NoUrl
        THEN [connectWebSocket(a) EXCEPT !.refreshTimer = 0]
        ELSE startAutoRefresh(a)

\* normalizeConfigPayload throws
Rejects(p) == p.hasRefresh /\ p.refresh < 5

\* the config file is edited by hand; watchConfig: config = loadConfig()
FileEdit(c) ==
    /\ ui.config # c
    /\ ui' = [Step(ui, "edit", NoSocket) EXCEPT !.config = c]
    /\ UNCHANGED <<inventoryVars, samplerVars, configVars, push, norm>>

\* handleSettingsSubmit up to the answer of config:update (preload.js:222)
SettingsSubmit(p) ==
    /\ ui.flow = "idle"
    /\ IF Rejects(p)
       THEN ui' = [Step(ui, "update", NoSocket) EXCEPT !.last.ok = FALSE]
       ELSE ui' = [Step(ui, "update", NoSocket) EXCEPT
                      !.config = [refresh |-> IF p.hasRefresh THEN p.refresh ELSE @.refresh,
                                  transport |-> p.transport,
                                  wsUrl |-> p.wsUrl],
                      !.flow = "hydrating"]
    /\ UNCHANGED <<inventoryVars, samplerVars, configVars, push, norm>>

\* hydrateConfig resumes after getConfig, then its caller calls refreshStats:
\* DOMContentLoaded refreshStats(), handleSettingsSubmit refreshStats(true)
HydrateDone ==
    /\ ui.flow \in {"boot", "hydrating"}
    /\ CanConnect(ui)
    /\ ui' = [refreshStats(hydrateConfig(Step(ui, "hydrate", NoSocket)), ui.flow = "hydrating")
                EXCEPT !.flow = "idle"]
    /\ UNCHANGED <<inventoryVars, samplerVars, configVars, push, norm>>

\* click on the refresh button or on the retry button: refreshStats(true)
RefreshClick ==
    /\ CanConnect(ui)
    /\ ui' = refreshStats(Step(ui, "click", NoSocket), TRUE)
    /\ UNCHANGED <<inventoryVars, samplerVars, configVars, push, norm>>

\* the setInterval callback of startAutoRefresh: refreshStats(false)
AutoRefreshTick ==
    /\ ui.refreshTimer # 0
    /\ CanConnect(ui)
    /\ ui' = refreshStats(Step(ui, "tick", NoSocket), FALSE)
    /\ UNCHANGED <<inventoryVars, samplerVars, configVars, push, norm>>

\* setTimeout(connectWebSocket, 5000) fires
ReconnectTimer ==
    /\ ui.timers > 0
    /\ CanConnect(ui)
    /\ ui' = connectWebSocket([Step(ui, "timer", NoSocket) EXCEPT !.timers = @ - 1])
    /\ UNCHANGED <<inventoryVars, samplerVars, configVars, push, norm>>

\* ws.onopen
SocketOpen(s) ==
    /\ ui.sock[s] = "connecting"
    /\ ui' = [Step(ui, "open", s) EXCEPT !.sock[s] = "open"]
    /\ UNCHANGED <<inventoryVars, samplerVars, configVars, push, norm>>

\* ws.onmessage: renderFromSnapshot
SocketMessage(s) ==
    /\ ui.sock[s] = "open"
    /\ ui' = Step(ui, "message", s)
    /\ UNCHANGED <<inventoryVars, samplerVars, configVars, push, norm>>

\* the socket is closed: the connection failed (after onerror), the server or the
\* network dropped it, or the close() of connectWebSocket completed; ws.onclose runs
SocketClose(s) ==
    /\ ui.sock[s] \in {"connecting", "open", "closing"}
    /\ ui.timers < MaxTimers
    /\ ui' = onclose([Step(ui, "close", s) EXCEPT !.sock[s] = "closed"])
    /\ UNCHANGED <<inventoryVars, samplerVars, configVars, push, norm>>

\* the refresh interval: config file, settings form, auto-refresh timer, stats:fetch
NextRefresh ==
    \/ \E c \in RefreshConfigs : FileEdit(c)
    \/ \E p \in Payloads : p \in [hasRefresh : BOOLEAN, refresh : RefreshValues,
                                  transport : {"ssh"}, wsUrl : {NoUrl}] /\ SettingsSubmit(p)
    \/ HydrateDone
    \/ RefreshClick
    \/ AutoRefreshTick

\* the transport wiring: config file, settings form, sockets, reconnect timers
NextRenderer ==
    \/ \E c \in WireConfigs : FileEdit(c)
    \/ \E p \in Payloads : ~p.hasRefresh /\ p.refresh = 30 /\ SettingsSubmit(p)
    \/ HydrateDone
    \/ RefreshClick
    \/ AutoRefreshTick
    \/ ReconnectTimer
    \/ \E s \in SocketIds : SocketOpen(s)
    \/ \E s \in SocketIds : SocketMessage(s)
    \/ \E s \in SocketIds : SocketClose(s)

(***************************************************************************)
(* The stats object of both transports: renderFromSnapshot of the renderer *)
(* (renderer.js:262) and fetchStats of the main process (preload.js:333).  *)
(* A value is "undefined" (field missing), "null", or "object" (present).  *)
(***************************************************************************)
SnapshotKeys == {"ts", "host", "network", "arrayUsage", "containers", "vms"}
JsValues == {"undefined", "null", "object"}
\* the payloads JSON.parse can give to renderFromSnapshot, apart from null;
\* containers and vms are arrays or missing
Snapshots ==
    {snapshot \in [SnapshotKeys -> JsValues] :
        snapshot["containers"] # "null" /\ snapshot["vms"] # "null"}
Falsy(v) == v \in {"undefined", "null"}

\* renderFromSnapshot with hostname written only when the snapshot has a host
renderFromSnapshot_HostnameIfHost(snapshot) ==
    IF Falsy(snapshot["host"])
    THEN [cpuPercent |-> "null", uptimeSeconds |-> "0", uptimeHuman |-> "0m",
          memory |-> "null", arrayUsage |-> "null", containers |-> "object",
          vms |-> "object", network |-> "null", fetchedAt |-> "now"]
    ELSE [cpuPercent |-> "object", uptimeSeconds |-> "object", uptimeHuman |-> "object",
          memory |-> "object", arrayUsage |-> "null", containers |-> "object",
          vms |-> "object", network |-> "null", hostname |-> "object", fetchedAt |-> "now"]

\* the stats object renderFromSnapshot builds
renderFromSnapshot(snapshot) ==
    LET host == IF Falsy(snapshot["host"]) THEN "undefined" ELSE "object"
    IN  [cpuPercent |-> IF host = "object" THEN "object" ELSE "null",
         uptimeSeconds |-> IF host = "object" THEN "object" ELSE "0",
         uptimeHuman |-> IF host = "object" THEN "object" ELSE "0m",
         memory |-> IF host = "object" THEN "object" ELSE "null",
         arrayUsage |-> IF Falsy(snapshot["arrayUsage"]) THEN "null" ELSE "object",
         containers |-> "object",
         vms |-> "object",
         network |-> IF Falsy(snapshot["network"]) THEN "null" ELSE "object",
         hostname |-> IF host = "object" THEN "object" ELSE "null",
         fetchedAt |-> IF Falsy(snapshot["ts"]) THEN "now" ELSE "object"]

\* what the collectors of fetchStats resolved to: arrayUsageRaw, network
SshResults == [arrayUsageRaw : {"null", "object"}, network : {"null", "object"}]

\* the stats object fetchStats builds
statsObject(r) ==
    [cpuPercent |-> "object",
     uptimeSeconds |-> "object",
     uptimeHuman |-> "object",
     memory |-> "object",
     arrayUsage |-> IF r.arrayUsageRaw = "null" THEN "zeros" ELSE "object",
     containers |-> "object",
     vms |-> "object",
     network |-> r.network,
     hostname |-> "object",
     fetchedAt |-> "now"]

NoStatsObject == [none |-> "undefined"]

NormIdle ==
    [snapshot |-> [k \in SnapshotKeys |-> "undefined"],
     wsBuilt |-> FALSE, ws |-> NoStatsObject,
     sshBuilt |-> FALSE, ssh |-> NoStatsObject]

\* ws.onmessage: JSON.parse gave null, renderFromSnapshot returns at once
ReceiveNull ==
    /\ norm.wsBuilt
    /\ norm' = [norm EXCEPT !.wsBuilt = FALSE, !.ws = NoStatsObject]
    /\ UNCHANGED <<inventoryVars, samplerVars, configVars, ui, push>>

\* ws.onmessage: renderFromSnapshot(snapshot)
ReceiveSnapshot(snapshot) ==
    /\ norm' = [norm EXCEPT !.snapshot = snapshot, !.wsBuilt = TRUE,
                            !.ws = renderFromSnapshot(snapshot)]
    /\ UNCHANGED <<inventoryVars, samplerVars, configVars, ui, push>>

\* fetchStats resolves with its stats object
SshStats(r) ==
    /\ norm' = [norm EXCEPT !.sshBuilt = TRUE, !.ssh = statsObject(r)]
    /\ UNCHANGED <<inventoryVars, samplerVars, configVars, ui, push>>

NextNorm ==
    \/ ReceiveNull
    \/ \E snapshot \in Snapshots : ReceiveSnapshot(snapshot)
    \/ \E r \in SshResults : SshStats(r)

(***************************************************************************)
(* Push mode (server.mjs:40-56): every connection gets its own 1 s         *)
(* setInterval; its callback awaits collectSnapshot() and sends the result *)
(* to that connection.                                                     *)
(***************************************************************************)
Clients == {"c1", "c2"}
NoClient == ""
Seconds == 0..MaxSeconds
\* how the callback ends: ws.send returns, ws.send throws, collectSnapshot rejects
TickOutcomes == {"sent", "send_throws", "rejected"}

PushBoot ==
    [now |-> 0,
     conn |-> [c \in Clients |-> "none"],
     timer |-> [c \in Clients |-> FALSE],
     due |-> [c \in Clients |-> FALSE],
     cycles |-> {},
     started |-> 0,
     lastTs |-> [c \in Clients |-> 0],
     lastStart |-> [c \in Clients |-> 0],
     last |-> [op |-> "boot", client |-> NoClient, ts |-> 0, to |-> {}, reordered |-> FALSE]]

CyclesOf(p, c) == {cy \in p.cycles : cy.client = c}
OpenClients(p) == {c \in Clients : p.conn[c] = "open"}

\* ts of a snapshot taken when the cycle started
SnapshotTs_AtStart(p, cy) == cy.start
\* ts: new Date().toISOString() after the Promise.all of collectSnapshot
SnapshotTs(p, cy) == p.now

\* a rejection nobody catches ends the process, and every ticker with it
Caught_Unhandled(p) == [p EXCEPT !.timer = [c \in Clients |-> FALSE],
                                 !.due = [c \in Clients |-> FALSE]]
\* catch (err) { console.error(...) }
Caught(p) == p

\* wss.on('connection'): setInterval(..., 1000)
ClientConnect(c) ==
    /\ push.conn[c] = "none"
    /\ push' = [push EXCEPT !.conn[c] = "open", !.timer[c] = TRUE,
                            !.last = [op |-> "connect", client |-> c, ts |-> 0, to |-> {},
                                      reordered |-> FALSE]]
    /\ UNCHANGED <<inventoryVars, samplerVars, configVars, ui, norm>>

\* one second passes: every running ticker comes due once
SecondPasses ==
    /\ push.now < MaxSeconds
    /\ \A c \in Clients : ~push.due[c]
    /\ push' = [push EXCEPT !.now = @ + 1, !.due = push.timer, !.started = 0,
                            !.last = [op |-> "second", client |-> NoClient, ts |-> 0, to |-> {},
                                      reordered |-> FALSE]]
    /\ UNCHANGED <<inventoryVars, samplerVars, configVars, ui, norm>>

\* the setInterval callback up to `await collectSnapshot()`; hung: one of the commands
\* of the cycle never returns
IntervalFire(c, hung) ==
    /\ push.due[c]
    /\ Cardinality(CyclesOf(push, c)) < MaxCycles
    /\ push' = [push EXCEPT !.due[c] = FALSE,
                            !.cycles = @ \cup {[client |-> c, start |-> push.now, hung |-> hung]},
                            !.started = @ + 1,
                            !.last = [op |-> "tick", client |-> c, ts |-> 0, to |-> {},
                                      reordered |-> FALSE]]
    /\ UNCHANGED <<inventoryVars, samplerVars, configVars, ui, norm>>

\* the callback after `await collectSnapshot()`: ws.send(JSON.stringify(payload))
CycleDone(cy, out) ==
    /\ cy \in push.cycles
    /\ ~cy.hung
    /\ LET c == cy.client
           rest == [push EXCEPT !.cycles = @ \ {cy}]
       IN  IF out = "rejected"
           THEN push' = Caught([rest EXCEPT !.last = [op |-> "rejected", client |-> c, ts |-> 0,
                                                     to |-> {}, reordered |-> FALSE]])
           ELSE IF out = "send_throws"
           THEN push' = Caught([rest EXCEPT !.last = [op |-> "send_throws", client |-> c,
                                                     ts |-> SnapshotTs(push, cy),
                                                     to |-> {}, reordered |-> FALSE]])
           ELSE IF push.conn[c] = "open"
           THEN push' = [rest EXCEPT !.lastTs[c] = SnapshotTs(push, cy),
                                     !.lastStart[c] = cy.start,
                                     !.last = [op |-> "sent", client |-> c,
                                               ts |-> SnapshotTs(push, cy), to |-> {c},
                                               reordered |-> cy.start < push.lastStart[c]]]
           ELSE push' = [rest EXCEPT !.last = [op |-> "dropped", client |-> c,
                                               ts |-> SnapshotTs(push, cy), to |-> {},
                                               reordered |-> FALSE]]
    /\ UNCHANGED <<inventoryVars, samplerVars, configVars, ui, norm>>

\* ws.on('close'): clearInterval(interval)
ClientClose(c) ==
    /\ push.conn[c] = "open"
    /\ push' = [push EXCEPT !.conn[c] = "closed", !.timer[c] = FALSE, !.due[c] = FALSE,
                            !.last = [op |-> "close", client |-> c, ts |-> 0, to |-> {},
                                      reordered |-> FALSE]]
    /\ UNCHANGED <<inventoryVars, samplerVars, configVars, ui, norm>>

NextPush ==
    \/ \E c \in Clients : ClientConnect(c)
    \/ SecondPasses
    \/ \E c \in Clients, hung \in BOOLEAN : IntervalFire(c, hung)
    \/ \E cy \in push.cycles, out \in TickOutcomes : CycleDone(cy, out)
    \/ \E c \in Clients : ClientClose(c)


(***************************************************************************)
(* parseDockerPorts (server.mjs:536, preload.js:736): the callback applied *)
(* to one trimmed segment of the Ports column, with its regular expression *)
(*   /([^:]+)?:?(\d+)->(\d+)(?:\/([a-z]+))?/i                              *)
(* matched as JavaScript matches it: leftmost start, greedy quantifiers,   *)
(* backtracking in the order of the pattern.                               *)
(***************************************************************************)
DigitChars == {"0", "1", "2", "3", "4", "5", "6", "7", "8", "9"}
LetterChars == {"t", "c", "p", "u", "d", "T", "C", "P", "U", "D"}
\* the parts a segment is written from: host IP (or none), ports, protocol (or none)
HostIpTexts == {<<>>, <<"1", ".", "2">>}
PortTexts == {<<"8">>, <<"8", "0">>, <<"4", "4", "3">>, <<"8", "0", "8", "0">>}
ProtocolTexts == {<<>>, <<"t", "c", "p">>, <<"u", "d", "p">>}
SegmentParts == [ip : HostIpTexts, hp : PortTexts, cp : PortTexts, proto : ProtocolTexts]
NoParts == [ip |-> <<>>, hp |-> <<>>, cp |-> <<>>, proto |-> <<>>]

\* [hostIp:]hostPort->containerPort[/protocol]
MappingSegment(g) ==
    (IF g.ip = <<>> THEN <<>> ELSE g.ip \o <<":">>) \o g.hp \o <<"-", ">">> \o g.cp
       \o (IF g.proto = <<>> THEN <<>> ELSE <<"/">> \o g.proto)
\* containerPort/protocol, a port that is exposed and not published
BareSegment(g) == g.cp \o <<"/">> \o g.proto

\* the length of the longest run of characters of `set` that starts at position p
RunLen(s, p, set) ==
    CHOOSE h \in 0..Len(s) :
        /\ \A k \in p..(p + h - 1) : k <= Len(s) /\ s[k] \in set
        /\ (p + h > Len(s) \/ s[p + h] \notin set)

\* the pattern matches from position i with group 1 of length g (0: group 1 takes no
\* part) and with the optional colon taken (c = 1) or not (c = 0)
MatchesAt(s, i, g, c) ==
    LET p == i + g + c
        h == RunLen(s, p, DigitChars)
    IN  /\ i + g - 1 <= Len(s)
        /\ \A k \in i..(i + g - 1) : s[k] # ":"
        /\ c = 1 => (i + g <= Len(s) /\ s[i + g] = ":")
        /\ h >= 1
        /\ p + h + 1 <= Len(s)
        /\ s[p + h] = "-"
        /\ s[p + h + 1] = ">"
        /\ RunLen(s, p + h + 2, DigitChars) >= 1

Attempts(s) == {t \in (1..Len(s)) \X (0..Len(s)) \X {0, 1} : MatchesAt(s, t[1], t[2], t[3])}
\* the order in which the matcher tries: start positions left to right, group 1 from
\* its longest to its shortest and then without it, the colon taken before not taken
Order(s, t) == t[1] * (2 * Len(s) + 2) + (Len(s) - t[2]) * 2 + (1 - t[3])
NoPort == [mapped |-> FALSE, hostIp |-> <<>>, hostPort |-> <<>>, containerPort |-> <<>>,
           protocol |-> <<>>, display |-> <<>>]
DefaultIp == <<"0", ".", "0", ".", "0", ".", "0">>
Tcp == <<"t", "c", "p">>

\* segment.match(...) and the object built from it
parseSegment(s) ==
    IF Attempts(s) = {} THEN [NoPort EXCEPT !.display = s]
    ELSE LET t == CHOOSE a \in Attempts(s) : \A b \in Attempts(s) : Order(s, a) <= Order(s, b)
             p == t[1] + t[2] + t[3]
             h == RunLen(s, p, DigitChars)
             q == p + h + 2
             n == RunLen(s, q, DigitChars)
             m1 == SubSeq(s, t[1], t[1] + t[2] - 1)
             m2 == SubSeq(s, p, p + h - 1)
             m3 == SubSeq(s, q, q + n - 1)
             l == IF q + n <= Len(s) /\ s[q + n] = "/"
                  THEN RunLen(s, q + n + 1, LetterChars) ELSE 0
             m4 == SubSeq(s, q + n + 1, q + n + l)
             protocol == IF m4 = <<>> THEN Tcp ELSE m4
         IN  [mapped |-> TRUE,
              hostIp |-> IF m1 # <<>> /\ includes(m1, <<".">>) THEN m1 ELSE DefaultIp,
              hostPort |-> m2,
              containerPort |-> m3,
              protocol |-> protocol,
              display |-> m2 \o <<"-", ">">> \o m3 \o <<"/">> \o protocol]

PortsIdle == [kind |-> "none", parsed |-> FALSE, parts |-> NoParts, segment |-> <<>>,
              out |-> NoPort]

\* docker ps prints a segment with a mapping
ReadMapping(g) ==
    /\ ports.kind = "none"
    /\ ports' = [ports EXCEPT !.kind = "mapping", !.parts = g, !.segment = MappingSegment(g)]
    /\ UNCHANGED <<inventoryVars, samplerVars, clientVars, store>>

\* docker ps prints a segment without a mapping
ReadBare(g) ==
    /\ ports.kind = "none"
    /\ g.ip = <<>> /\ g.hp = g.cp /\ g.proto # <<>>
    /\ ports' = [ports EXCEPT !.kind = "bare", !.parts = g, !.segment = BareSegment(g)]
    /\ UNCHANGED <<inventoryVars, samplerVars, clientVars, store>>

\* the segment goes through the callback of parseDockerPorts
ParseSegment ==
    /\ ports.kind # "none"
    /\ ~ports.parsed
    /\ ports' = [ports EXCEPT !.parsed = TRUE, !.out = parseSegment(ports.segment)]
    /\ UNCHANGED <<inventoryVars, samplerVars, clientVars, store>>

NextPorts ==
    \/ \E g \in SegmentParts : ReadMapping(g)
    \/ \E g \in SegmentParts : ReadBare(g)
    \/ ParseSegment

(***************************************************************************)
(* The config of the main process (preload.js): the user config file, the  *)
(* config in memory, the handlers config:get, config:edit, config:update   *)
(* (218-234), the file watcher (267-282), and the two caches a reload      *)
(* clears.  Of the mutable fields port, refreshIntervalSeconds, authMethod,*)
(* transport and password are carried; `theme` stands for a field of the   *)
(* file that is not in CONFIG_MUTABLE_FIELDS.  Numbers are kept in tenths  *)
(* in a payload (225 is 22.5) and in units once normalised.                *)
(***************************************************************************)
Undefined == "undefined"
\* a field of text (authMethod, transport) that the object does not have
NoText == <<>>
PasswordAuth == <<"p", "a", "s", "s", "w", "o", "r", "d">>
KeyAuth == <<"k", "e", "y">>
SshWord == <<"s", "s", "h">>
WsWord == <<"w", "s">>
NotGiven == [t |-> "undefined", v |-> 0]
\* '' from an empty form field
BlankText == [t |-> "blank", v |-> 0]
\* Number('abc')
NotANumber == [t |-> "nan", v |-> 0]
Num(v) == [t |-> "number", v |-> v]
Secrets == {"pw1", "pw2"}
\* '••••••'
Mask == "******"

\* DEFAULT_CONFIG of preload.js
StoreDefaults ==
    [port |-> Num(22), refreshIntervalSeconds |-> Num(30), authMethod |-> PasswordAuth,
     transport |-> SshWord, password |-> Undefined, theme |-> Undefined]
\* {}
EmptyFile ==
    [port |-> NotGiven, refreshIntervalSeconds |-> NotGiven, authMethod |-> NoText,
     transport |-> NoText, password |-> Undefined, theme |-> Undefined]
\* config.json as the user wrote it by hand
HandWrittenFiles ==
    {[EmptyFile EXCEPT !.theme = "dark"],
     [EmptyFile EXCEPT !.theme = "dark", !.password = "pw1", !.port = Num(2222)]}

\* the object has no field f
Lacks(obj, f) ==
    CASE f \in {"port", "refreshIntervalSeconds"} -> obj[f] = NotGiven
      [] f \in {"authMethod", "transport"} -> obj[f] = NoText
      [] OTHER -> obj[f] = Undefined

\* { ...DEFAULT_CONFIG, ...fallback, ...userConfig } with a template that sets none
\* of the fields carried
loadConfig(file) ==
    [f \in DOMAIN file |-> IF Lacks(file, f) THEN StoreDefaults[f] ELSE file[f]]

Truthy(s) == s \notin {Undefined, ""}

sanitizeConfig_NoMask(rawConfig) == rawConfig

sanitizeConfig(rawConfig) ==
    IF Truthy(rawConfig.password) THEN [rawConfig EXCEPT !.password = Mask] ELSE rawConfig

buildEditableConfig(cfg) ==
    [f \in DOMAIN cfg \cup {"passwordSet"} |->
        CASE f = "passwordSet" -> IF Truthy(cfg.password) THEN "true" ELSE "false"
          [] f = "password" -> ""
          [] OTHER -> cfg[f]]

\* payloads of config:update that are objects
PortInputs == {NotGiven, BlankText, NotANumber, Num(0), Num(225), Num(22220), Num(655360)}
RefreshInputs == {NotGiven, NotANumber, Num(46), Num(54)}
AuthInputs == {NoText, KeyAuth, <<"t", "o", "k", "e", "n">>}
TransportInputs == {NoText, <<"W", "S">>, <<"f", "t", "p">>}
PasswordInputs == {Undefined, "", "pw2"}
NoPayload ==
    [kind |-> "none", port |-> NotGiven, refreshIntervalSeconds |-> NotGiven,
     authMethod |-> NoText, transport |-> NoText, password |-> Undefined,
     clearPassword |-> FALSE]
Given(p) ==
    Cardinality({f \in {"port", "refreshIntervalSeconds", "authMethod", "transport"} :
                    ~Lacks(p, f)})
ObjectPayloads ==
    {p \in [kind : {"object"}, port : PortInputs, refreshIntervalSeconds : RefreshInputs,
            authMethod : AuthInputs, transport : TransportInputs,
            password : PasswordInputs, clearPassword : BOOLEAN] : Given(p) <= 2}
\* what the renderer can pass to ipcRenderer.invoke('config:update', payload)
UpdatePayloads ==
    ObjectPayloads \cup {[NoPayload EXCEPT !.kind = k] : k \in {"omitted", "null", "string"}}

Thrown(message) == [ok |-> FALSE, message |-> message, patch |-> EmptyFile]

\* normalizeConfigPayload: the patch, or the Error it throws
normalizeConfigPayload(payload) ==
    LET port == payload.port
        refresh == payload.refreshIntervalSeconds
        authMethod == toLowerCase(payload.authMethod)
        t == toLowerCase(payload.transport)
    IN  CASE payload.kind \in {"null", "string"} -> Thrown("Invalid config payload.")
          [] /\ payload.kind \notin {"null", "string"}
             /\ port \notin {NotGiven, BlankText}
             /\ (port.t # "number" \/ port.v % 10 # 0 \/ port.v < 10 \/ port.v > 655350) ->
                Thrown("Port must be between 1 and 65535.")
          [] OTHER ->
             CASE payload.authMethod # NoText /\ authMethod \notin {PasswordAuth, KeyAuth} ->
                    Thrown("authMethod must be password or key.")
               [] OTHER ->
                  CASE /\ refresh \notin {NotGiven, BlankText}
                       /\ (refresh.t # "number" \/ refresh.v < 50) ->
                         Thrown("Refresh interval must be at least 5 seconds.")
                    [] OTHER ->
                       CASE payload.transport # NoText /\ t \notin {SshWord, WsWord} ->
                              Thrown("transport must be ssh or ws.")
                         [] OTHER ->
                            [ok |-> TRUE, message |-> "",
                             patch |->
                               [port |-> IF port \in {NotGiven, BlankText} THEN NotGiven
                                         ELSE Num(port.v \div 10),
                                refreshIntervalSeconds |->
                                    IF refresh \in {NotGiven, BlankText} THEN NotGiven
                                    ELSE Num((refresh.v + 5) \div 10),
                                authMethod |-> authMethod,
                                transport |-> t,
                                password |-> IF payload.clearPassword THEN ""
                                             ELSE IF Truthy(payload.password)
                                                  THEN payload.password ELSE Undefined,
                                theme |-> Undefined]]

CONFIG_MUTABLE_FIELDS == {"port", "refreshIntervalSeconds", "authMethod", "transport", "password"}

\* persistUserConfig that writes the patch alone
persistUserConfig_PatchOnly(file, patch) ==
    IF \A f \in CONFIG_MUTABLE_FIELDS : Lacks(patch, f) THEN file
    ELSE [f \in DOMAIN file |->
            IF f = "password" /\ patch[f] = "" THEN Undefined ELSE patch[f]]

\* persistUserConfig: what config.json holds afterwards
persistUserConfig(file, patch) ==
    IF \A f \in CONFIG_MUTABLE_FIELDS : Lacks(patch, f) THEN file
    ELSE [f \in DOMAIN file |->
            IF f \notin CONFIG_MUTABLE_FIELDS \/ Lacks(patch, f) THEN file[f]
            ELSE IF f = "password" /\ patch[f] = "" THEN Undefined
                 ELSE patch[f]]

NoReply == [op |-> "none", success |-> FALSE, message |-> "", config |-> EmptyFile]

\* the app starts with a config.json written by hand
StoreBoots ==
    {[file |-> file, config |-> loadConfig(file), statsCache |-> FALSE,
      lastNetSample |-> FALSE, payload |-> NoPayload, reply |-> NoReply] :
        file \in HandWrittenFiles}
StoreBoot == CHOOSE b \in StoreBoots : b.file.password = Undefined

\* config:update with the validation left out of the try block's order: the caches
\* are cleared before the payload is normalised
configUpdate_ClearsFirst(st, payload) ==
    LET normalized == normalizeConfigPayload(payload)
        file == persistUserConfig(st.file, normalized.patch)
    IN  IF normalized.ok
        THEN [st EXCEPT !.file = file, !.config = loadConfig(file),
                        !.statsCache = FALSE, !.lastNetSample = FALSE,
                        !.payload = payload,
                        !.reply = [op |-> "update", success |-> TRUE, message |-> "",
                                   config |-> sanitizeConfig(loadConfig(file))]]
        ELSE [st EXCEPT !.statsCache = FALSE, !.lastNetSample = FALSE,
                        !.payload = payload,
                        !.reply = [op |-> "update", success |-> FALSE,
                                   message |-> normalized.message, config |-> EmptyFile]]

\* ipcMain.handle('config:update'): the state of the main process and the reply
configUpdate(st, payload) ==
    LET normalized == normalizeConfigPayload(payload)
        file == persistUserConfig(st.file, normalized.patch)
    IN  IF normalized.ok
        THEN [st EXCEPT !.file = file, !.config = loadConfig(file),
                        !.statsCache = FALSE, !.lastNetSample = FALSE,
                        !.payload = payload,
                        !.reply = [op |-> "update", success |-> TRUE, message |-> "",
                                   config |-> sanitizeConfig(loadConfig(file))]]
        ELSE [st EXCEPT !.payload = payload,
                        !.reply = [op |-> "update", success |-> FALSE,
                                   message |-> normalized.message, config |-> EmptyFile]]

\* ipcMain.handle('config:get')
configGet(st) ==
    [st EXCEPT !.reply = [op |-> "get", success |-> TRUE, message |-> "",
                          config |-> sanitizeConfig(st.config)]]

\* ipcMain.handle('config:edit')
configEdit(st) ==
    [st EXCEPT !.reply = [op |-> "edit", success |-> TRUE, message |-> "",
                          config |-> buildEditableConfig(st.config)]]

\* no request of the renderer is waiting for its reply
Quiet == store.reply = NoReply

ConfigUpdate(payload) ==
    /\ Quiet
    /\ store' = configUpdate(store, payload)
    /\ UNCHANGED <<inventoryVars, samplerVars, clientVars, ports>>

ConfigGet ==
    /\ Quiet
    /\ store' = configGet(store)
    /\ UNCHANGED <<inventoryVars, samplerVars, clientVars, ports>>

ConfigEdit ==
    /\ Quiet
    /\ store' = configEdit(store)
    /\ UNCHANGED <<inventoryVars, samplerVars, clientVars, ports>>

\* the renderer's await of ipcRenderer.invoke returns
ReplyRead ==
    /\ ~Quiet
    /\ store' = [store EXCEPT !.payload = NoPayload, !.reply = NoReply]
    /\ UNCHANGED <<inventoryVars, samplerVars, clientVars, ports>>

\* a stats:fetch succeeded: statsCache and lastNetSample are set
StoreFetched ==
    /\ Quiet
    /\ ~(store.statsCache /\ store.lastNetSample)
    /\ store' = [store EXCEPT !.statsCache = TRUE, !.lastNetSample = TRUE]
    /\ UNCHANGED <<inventoryVars, samplerVars, clientVars, ports>>

\* the user writes config.json by hand
StoreFileEdit ==
    /\ Quiet
    /\ store.config = loadConfig(store.file)
    /\ \E file \in HandWrittenFiles \ {store.file} : store' = [store EXCEPT !.file = file]
    /\ UNCHANGED <<inventoryVars, samplerVars, clientVars, ports>>

\* the callback of fs.watch in watchConfig
StoreWatch ==
    /\ Quiet
    /\ store.config # loadConfig(store.file)
    /\ store' = [store EXCEPT !.config = loadConfig(store.file),
                              !.statsCache = FALSE, !.lastNetSample = FALSE]
    /\ UNCHANGED <<inventoryVars, samplerVars, clientVars, ports>>

NextStore ==
    \/ \E payload \in UpdatePayloads : ConfigUpdate(payload)
    \/ ConfigGet
    \/ ConfigEdit
    \/ ReplyRead
    \/ StoreFetched
    \/ StoreFileEdit
    \/ StoreWatch

(***************************************************************************)
(* Spec: the container inventory.                                          *)
(***************************************************************************)
NoEvt == [line |-> [json |-> FALSE, Type |-> "", id |-> NoId, ID |-> NoId,
                    ActorID |-> NoId, status |-> <<>>, Action |-> <<>>],
          path |-> "none"]
\* no assembly cycle is running
IdleAsm ==
    [phase |-> "idle", transport |-> "none", faults |-> {},
     result |-> [kind |-> "none", host |-> "none", network |-> "none",
                 arrayUsage |-> "none", containers |-> "none", vms |-> "none"]]
\* startDockerEventsListener() ran at boot (server.mjs:37): one child is running
ListenerUp ==
    [children |-> 1, timers |-> 0, closing |-> 0, last |-> "boot", restarted |-> FALSE]

\* what the daemon holds when the server starts: the first container in any
\* state, the others running
InitialRuntimes ==
    {rt \in [Ids -> {"absent"} \cup Statuses] :
        \A k \in 2..Len(IdOrder) : rt[IdOrder[k]] = "Up"}

InitCache ==
    /\ runtime \in InitialRuntimes
    /\ moves = 0
    /\ feed = <<>>
    /\ containersCache = [initialised |-> FALSE, list |-> <<>>, byId |-> EmptyMap]
    /\ refreshTasks = EmptyBag
    /\ snapCalls = EmptyBag
    /\ removedSince = [id \in Ids |-> FALSE]
    /\ fullRefreshes = 0
    /\ lastMut = NoMut

\* the samplers and the VM cache at module load
InitClients ==
    /\ ui = RendererBoot
    /\ push = PushBoot
    /\ norm = NormIdle
    /\ ports = PortsIdle
    /\ store = StoreBoot

InitSamplers ==
    /\ vm = VmBoot
    /\ net = NetBoot("ws")
    /\ cpu = CpuIdle
    /\ pull = PullBoot

Init ==
    /\ InitCache
    /\ lastEvt = NoEvt
    /\ asm = IdleAsm
    /\ listener = ListenerUp
    /\ InitSamplers
    /\ InitClients

Next ==
    \/ \E id \in Ids : DaemonChange(id)
    \/ DockerEvent
    \/ \E t \in BagToSet(refreshTasks) : RefreshPsDone(t)
    \/ \E t \in BagToSet(refreshTasks) : RefreshInspectDone(t)
    \/ getContainersSnapshot
    \/ \E c \in BagToSet(snapCalls) : FullRefreshPsDone(c)
    \/ \E c \in BagToSet(snapCalls) : FullRefreshInspectDone(c)

Spec == Init /\ [][Next]_vars

(***************************************************************************)
(* SpecEvents: handleDockerEventLine applied to sample event lines.        *)
(***************************************************************************)
\* a line JSON.parse rejects
BadLine == NoEvt.line

\* a network event: no id and no status, the object is named by Actor.ID
NetworkLine ==
    [json |-> TRUE, Type |-> "network", id |-> NoId, ID |-> NoId, ActorID |-> "a",
     status |-> <<>>, Action |-> kw_destroy]

\* an event of the old API: status and id only
OldApiLine ==
    [json |-> TRUE, Type |-> "", id |-> "a", ID |-> NoId, ActorID |-> NoId,
     status |-> kw_die, Action |-> <<>>]

EventSamples ==
    {BadLine, NetworkLine, OldApiLine,
     Line("container", "a", kw_create),
     Line("container", "a", kw_start),
     Line("container", "a", kw_restart),
     Line("container", "a", kw_rename),
     Line("container", "a", kw_unpause),
     Line("container", "a", kw_pause),
     Line("container", "a", kw_die),
     Line("container", "a", kw_stop),
     Line("container", "a", kw_destroy),
     Line("container", "a", kw_remove),
     Line("container", "b", <<"D", "i", "e">>),
     Line("container", "a", <<"S", "T", "O", "P">>),
     Line("container", "a", <<"D", "e", "s", "t", "r", "o", "y">>),
     Line("container", "a", <<"e", "x", "e", "c", "_", "s", "t", "a", "r", "t">>),
     Line("container", "a", <<"e", "x", "e", "c", "_", "d", "i", "e", ":", " ", "r", "e", "m", "o", "v", "e">>),
     Line("container", "a", <<"k", "i", "l", "l">>),
     Line("container", "a", <<"t", "o", "p">>),
     Line("container", "a", <<>>),
     Line("container", NoId, <<"s", "t", "a", "r", "t">>),
     Line("", "b", <<"d", "e", "s", "t", "r", "o", "y">>),
     Line("Container", "a", <<"d", "e", "s", "t", "r", "o", "y">>),
     Line("image", "a", <<"r", "e", "m", "o", "v", "e">>)}

\* one line arrives on the listener's stdout and is handled
EventLine(line) ==
    /\ EventPath(line) = "refresh" => BagCardinality(refreshTasks) < MaxTasks
    /\ handleDockerEventLine(line)
    /\ lastEvt' = [line |-> line, path |-> EventPath(line)]
    /\ UNCHANGED <<runtime, moves, feed, fullRefreshes, asm, listener, samplerVars, clientVars, configVars>>

NextEvents ==
    \/ \E line \in EventSamples : EventLine(line)
    \/ \E t \in BagToSet(refreshTasks) : RefreshPsDone(t)
    \/ \E t \in BagToSet(refreshTasks) : RefreshInspectDone(t)

\* the daemon's containers are running and stay so while the lines arrive
InitEvents ==
    /\ Init
    /\ \A id \in Ids : runtime[id] = "Up"

SpecEvents == InitEvents /\ [][NextEvents]_vars

(***************************************************************************)
(* Properties of the container inventory.                                  *)
(***************************************************************************)
\* C2: the inventory list holds at most one entry per container id
C2_OneEntryPerId ==
    \A i, j \in DOMAIN containersCache.list :
        containersCache.list[i].id = containersCache.list[j].id => i = j

\* two full refreshes overlapped, and an upsert then found both containers listed
C2_Witness ==
    /\ fullRefreshes = 2
    /\ lastMut.kind = "upsert"
    /\ Len(containersCache.list) = 2

\* C3: once a destroy/remove event for id was handled, id is absent from the list
\* and from the id-index until a later refresh-class event for id is handled,
\* whatever refresh-one completes in between (stated of the states the event-driven
\* operations leave: the last mutation is not a full refresh swap)
C3_RemovedStaysAbsent ==
    \A id \in Ids :
        (removedSince[id] /\ lastMut.kind # "full") =>
            /\ id \notin ListIds(containersCache)
            /\ id \notin IndexIds(containersCache)

\* C4: the swap of a full refresh keeps every entry an event-driven upsert or
\* remove changed after the refresh read its bulk listing
C4_FullRefreshKeepsEvents ==
    [][\A c \in BagToSet(snapCalls) :
          FullRefreshInspectDone(c) => Lost(c, containersCache') = {}]_vars

\* C5: the full refresh is executed at most once and initialised never returns
\* to false
C5_FullRefreshOnce ==
    [][/\ fullRefreshes' <= 1
       /\ containersCache.initialised => containersCache'.initialised]_vars

\* C6: in every state the ids in the list are the keys of the id-index
C6_ListMatchesIndex ==
    ListIds(containersCache) = IndexIds(containersCache)

\* an event removed one container from a cache that keeps another
C6_Witness ==
    /\ lastMut.kind = "remove"
    /\ containersCache.initialised
    /\ Len(containersCache.list) = 1

\* C8: a refresh-one that upserts the object the preceding refresh-one upserted
\* leaves the inventory as it was, with exactly one entry for the id
C8_RefreshOneIdempotent ==
    [][(lastMut'.kind = "upsert" /\ lastMut'.rep) =>
          /\ containersCache' = containersCache
          /\ Cardinality({i \in DOMAIN containersCache'.list :
                             containersCache'.list[i].id = lastMut'.id}) = 1]_vars

\* the same object was upserted twice in a row into a list of two, at its head
C8_Witness ==
    /\ lastMut.kind = "upsert"
    /\ lastMut.rep
    /\ Len(containersCache.list) = 2
    /\ containersCache.list[1].id = lastMut.id

\* C9: after a refresh-one whose summary query returned nothing the id is in
\* neither structure; after one whose query returned an entry the id has the same
\* object in both
C9_RefreshOneFollowsQuery ==
    /\ lastMut.kind = "gone" =>
          /\ lastMut.id \notin ListIds(containersCache)
          /\ lastMut.id \notin IndexIds(containersCache)
    /\ lastMut.kind = "upsert" =>
          /\ lastMut.id \in ListIds(containersCache)
          /\ lastMut.id \in IndexIds(containersCache)
          /\ EntryOf(containersCache, lastMut.id).id = lastMut.id
          /\ ListEntryOf(containersCache, lastMut.id) =
                 EntryOf(containersCache, lastMut.id)

\* a refresh-one found its container gone while the daemon still lists another
C9_Witness ==
    /\ lastMut.kind = "gone"
    /\ runtime[lastMut.id] = "absent"
    /\ containersCache.list # <<>>

(***************************************************************************)
(* Event classification.                                                   *)
(***************************************************************************)
RefreshWords ==
    {kw_create, kw_start, kw_restart, kw_rename, kw_unpause, kw_pause, kw_die, kw_stop}
RemoveWords == {kw_destroy, kw_remove}

\* the class of a parsed container event by its action, compared in lower case
ClassOf(line) ==
    LET action == toLowerCase(IF line.status # <<>> THEN line.status ELSE line.Action)
    IN  IF \E w \in RefreshWords : includes(action, w) THEN "refresh"
        ELSE IF \E w \in RemoveWords : includes(action, w) THEN "remove"
        ELSE "ignore"

\* C7: a container event with an id starts a refresh-one of that id when its
\* action contains a refresh word, else removes the id when it contains destroy
\* or remove; every other line, and every event of another Type, changes nothing
C7_EventClassification ==
    [][LET line == lastEvt'.line IN
          EventLine(line) =>
              LET id == EventId(line)
                  class == IF line.json /\ line.Type \in {"", "container"} /\ id # NoId
                           THEN ClassOf(line)
                           ELSE "ignore"
              IN  /\ class = "refresh" =>
                        /\ refreshTasks' = refreshTasks (+) SetToBag({NewTask(id)})
                        /\ containersCache' = containersCache
                  /\ class = "remove" =>
                        /\ id \notin ListIds(containersCache')
                        /\ id \notin IndexIds(containersCache')
                        /\ refreshTasks' = refreshTasks
                  /\ class = "ignore" =>
                        /\ refreshTasks' = refreshTasks
                        /\ containersCache' = containersCache]_vars

\* "Die" started a refresh-one of its container
C7_Witness ==
    /\ lastEvt.line.status = <<"D", "i", "e">>
    /\ lastEvt.path = "refresh"
    /\ BagIn(NewTask(lastEvt.line.id), refreshTasks)

(***************************************************************************)
(* SpecAssembly: one assembly cycle.  A fault is a failure of one external *)
(* read or command during the cycle; a collector yields "value", a         *)
(* degraded "null" / "zero" / "empty", or "throws".                        *)
(***************************************************************************)
WsFaults ==
    {"procfs_read",   \* fs.readFileSync of /proc/uptime, /proc/meminfo or /proc/stat throws
     "net_missing",   \* the interface's rx_bytes / tx_bytes files do not exist
     "net_read",      \* fs.readFileSync of a counter file throws
     "df_exec",       \* execAsync of the df pipeline rejects
     "df_short",      \* df prints fewer than 5 columns
     "docker_exec",   \* docker ps fails or its execAsync rejects
     "virsh_exec"}    \* virsh list fails or its execAsync rejects

SshFaults ==
    {"cpu_cmd", "uptime_cmd", "mem_cmd", "df_cmd", "df_short", "hostname_cmd",
     "docker_cmd", "net_cmd", "virsh_cmd"}

\* server.mjs collectors
collectHostStats(F) == IF "procfs_read" \in F THEN "throws" ELSE "value"

collectNetworkStats(F) ==
    IF "net_missing" \in F THEN "null"
    ELSE IF "net_read" \in F THEN "throws"
    ELSE "value"

collectArrayUsage(F) ==
    IF "df_exec" \in F THEN "null"
    ELSE IF "df_short" \in F THEN "zero"
    ELSE "value"

\* getContainersSnapshot: fullContainersRefresh catches and the list is returned
containersField(F) == IF "docker_exec" \in F THEN "empty" ELSE "value"

\* getVmsSnapshot: the poll's failure is caught and the cached value returned
vmsField(F) == IF "virsh_exec" \in F THEN "empty" ELSE "value"

Rejected ==
    [kind |-> "rejected", host |-> "none", network |-> "none",
     arrayUsage |-> "none", containers |-> "none", vms |-> "none"]

\* Promise.all of the collectors, then the payload (server.mjs:58-75)
collectSnapshot(F) ==
    LET host == collectHostStats(F)
        network == collectNetworkStats(F)
        arrayUsage == collectArrayUsage(F)
        containers == containersField(F)
        vms == vmsField(F)
    IN  IF "throws" \in {host, network, arrayUsage, containers, vms}
        THEN Rejected
        ELSE [kind |-> "snapshot", host |-> host, network |-> network,
              arrayUsage |-> arrayUsage, containers |-> containers, vms |-> vms]

\* preload.js collectors over the SSH connection: runCommand rejects on failure
sshHostStats(F) ==
    IF F \cap {"cpu_cmd", "uptime_cmd", "mem_cmd"} # {} THEN "throws" ELSE "value"

\* collectArrayUsage(conn).catch(() => null), then arrayUsageRaw || zero values
sshArrayUsage(F) ==
    IF F \cap {"df_cmd", "df_short"} # {} THEN "zero" ELSE "value"

\* collectNetworkStats(conn).catch(() => null)
sshNetwork(F) == IF "net_cmd" \in F THEN "null" ELSE "value"

\* collectDockerContainers(conn).catch(() => [])
sshContainers(F) == IF "docker_cmd" \in F THEN "empty" ELSE "value"

\* collectVmList(conn).catch(() => [])
sshVms(F) == IF "virsh_cmd" \in F THEN "empty" ELSE "value"

\* Promise.all inside the 'ready' handler, then the stats object (preload.js:284-374)
fetchStats(F) ==
    LET host == sshHostStats(F)
    IN  IF host = "throws"
        THEN Rejected
        ELSE [kind |-> "snapshot", host |-> host, network |-> sshNetwork(F),
              arrayUsage |-> sshArrayUsage(F), containers |-> sshContainers(F),
              vms |-> sshVms(F)]

\* a tick (or a stats:fetch) starts a cycle under some faults
BeginCycle ==
    /\ asm.phase # "running"
    /\ \E transport \in {"ws", "ssh"} :
          \E F \in SUBSET (IF transport = "ws" THEN WsFaults ELSE SshFaults) :
              asm' = [IdleAsm EXCEPT !.phase = "running",
                                     !.transport = transport,
                                     !.faults = F]
    /\ UNCHANGED <<cacheVars, lastEvt, listener, samplerVars, clientVars, configVars>>

\* the cycle settles
EndCycle ==
    /\ asm.phase = "running"
    /\ asm' = [asm EXCEPT !.phase = "done",
                          !.result = IF asm.transport = "ws"
                                     THEN collectSnapshot(asm.faults)
                                     ELSE fetchStats(asm.faults)]
    /\ UNCHANGED <<cacheVars, lastEvt, listener, samplerVars, clientVars, configVars>>

NextAssembly == BeginCycle \/ EndCycle

SpecAssembly == InitEvents /\ [][NextAssembly]_vars

\* C1: a cycle in which one sub-collector fails still yields a snapshot holding
\* all five fields
C1_CollectorFailureNeverAborts ==
    (asm.phase = "done" /\ Cardinality(asm.faults) = 1) =>
        /\ asm.result.kind = "snapshot"
        /\ \A f \in {asm.result.host, asm.result.network, asm.result.arrayUsage,
                     asm.result.containers, asm.result.vms} : f # "none"

(***************************************************************************)
(* SpecListener: startDockerEventsListener (server.mjs:388-427).           *)
(***************************************************************************)
Alive(l) == l.children + l.timers + l.closing

\* child.on('close') of a running child without the restart
ChildExit_NoRestart ==
    /\ listener.children > 0
    /\ listener' = [listener EXCEPT !.children = @ - 1, !.last = "exited"]
    /\ UNCHANGED <<cacheVars, lastEvt, asm, samplerVars, clientVars, configVars>>

\* child.on('close') of a running child: restart in 5 s
ChildExit ==
    /\ listener.children > 0
    /\ listener' = [listener EXCEPT !.children = @ - 1,
                                    !.timers = @ + 1,
                                    !.last = "exited"]
    /\ UNCHANGED <<cacheVars, lastEvt, asm, samplerVars, clientVars, configVars>>

\* a restart timer fires and spawn succeeds
StartOk ==
    /\ listener.timers > 0
    /\ listener' = [listener EXCEPT !.timers = @ - 1,
                                    !.children = @ + 1,
                                    !.last = "spawned",
                                    !.restarted = TRUE]
    /\ UNCHANGED <<cacheVars, lastEvt, asm, samplerVars, clientVars, configVars>>

\* a restart timer fires and spawn throws: catch, restart in 5 s
StartThrows ==
    /\ listener.timers > 0
    /\ listener' = [listener EXCEPT !.last = "spawn_throw"]
    /\ UNCHANGED <<cacheVars, lastEvt, asm, samplerVars, clientVars, configVars>>

\* a restart timer fires and the child emits 'error' (docker cannot be run):
\* restart in 5 s; the child's 'close' may follow
StartError ==
    /\ listener.timers > 0
    /\ Alive(listener) < MaxListeners
    /\ listener' = [listener EXCEPT !.closing = @ + 1, !.last = "spawn_error"]
    /\ UNCHANGED <<cacheVars, lastEvt, asm, samplerVars, clientVars, configVars>>

\* child.on('close') of a child that failed to start: restart in 5 s, again
FailedChildClose ==
    /\ listener.closing > 0
    /\ listener' = [listener EXCEPT !.closing = @ - 1,
                                    !.timers = @ + 1,
                                    !.last = "closed"]
    /\ UNCHANGED <<cacheVars, lastEvt, asm, samplerVars, clientVars, configVars>>

\* a child that failed to start emits no 'close'
FailedChildGone ==
    /\ listener.closing > 0
    /\ listener' = [listener EXCEPT !.closing = @ - 1, !.last = "gone"]
    /\ UNCHANGED <<cacheVars, lastEvt, asm, samplerVars, clientVars, configVars>>

NextListener ==
    \/ ChildExit
    \/ StartOk
    \/ StartThrows
    \/ StartError
    \/ FailedChildClose
    \/ FailedChildGone

\* the boot-time startDockerEventsListener() (server.mjs:37) succeeded, got
\* 'error' from the child, or caught a throw
BootOutcomes ==
    {ListenerUp,
     [ListenerUp EXCEPT !.children = 0, !.timers = 1, !.closing = 1,
                        !.last = "spawn_error"],
     [ListenerUp EXCEPT !.children = 0, !.timers = 1, !.last = "spawn_throw"]}

InitListener ==
    /\ InitCache
    /\ \A id \in Ids : runtime[id] = "Up"
    /\ lastEvt = NoEvt
    /\ asm = IdleAsm
    /\ listener \in BootOutcomes
    /\ InitSamplers
    /\ InitClients

\* a pending restart timer fires, and docker can be spawned again at some time
SpecListener == InitListener /\ [][NextListener]_vars /\ WF_vars(StartOk)

\* C10: whenever no listener is running a restart is pending, and a listener is
\* running again later
C10_ListenerRestarts ==
    /\ [](listener.children = 0 => listener.timers > 0)
    /\ (listener.children = 0) ~> (listener.children > 0)

\* the listener went down and a restart timer started it again
C10_Witness ==
    /\ listener.restarted
    /\ listener.last = "spawned"
    /\ listener.children = 1
    /\ listener.timers = 0

(***************************************************************************)
(* SpecHealthy: the event path alone, with docker commands that succeed.   *)
(***************************************************************************)
\* docker ps of a refresh-one succeeds and prints what the daemon holds
RefreshPsOk(t) == RefreshPs(t, "line")

NextHealthy ==
    \/ \E id \in Ids : DaemonChange(id)
    \/ DockerEvent
    \/ \E t \in BagToSet(refreshTasks) : RefreshPsOk(t)
    \/ \E t \in BagToSet(refreshTasks) : RefreshInspectDone(t)

SpecHealthy == Init /\ [][NextHealthy]_vars

\* C11: once the event feed is drained and every refresh-one has completed,
\* each cached container that still exists shows the runtime's current status
C11_QuietCacheIsCurrent ==
    (/\ feed = <<>>
     /\ refreshTasks = EmptyBag) =>
        \A id \in IndexIds(containersCache) :
            runtime[id] # "absent" => EntryOf(containersCache, id).status = runtime[id]

(***************************************************************************)
(* SpecVms: the VM cache.                                                  *)
(***************************************************************************)
SpecVms == InitEvents /\ [][NextVms]_vars

\* C12: a get() less than VM_CACHE_MS after the time stamped by a successful
\* poll returns the cached value and starts no poll; any other get(), the first
\* one included, starts a poll
C12_FreshGetServesCache ==
    [][getVmsSnapshot =>
         IF vm.cache.ts > 0 /\ vm.clock - vm.cache.ts < 60000
         THEN /\ vm'.last.kind = "cached"
              /\ vm'.last.value = vm.cache.value
              /\ vm'.calls = vm.calls
              /\ vm'.cache = vm.cache
         ELSE /\ vm'.calls = vm.calls \cup {vm.clock}
              /\ vm'.calls # vm.calls
              /\ vm'.cache = vm.cache]_vars

\* a get() just under the threshold after a successful poll was served from the
\* cache, a non-empty list
C12_Witness ==
    /\ vm.last.kind = "cached"
    /\ vm.last.value # <<>>
    /\ vm.clock - vm.cache.ts = 59000

\* C13: a get() whose listing command failed returns the list cached before it
\* and leaves the cached list and its timestamp as they were
C13_FailedPollKeepsCache ==
    [][(/\ vm.cache.value # <<>>
        /\ vm'.calls # vm.calls
        /\ vm'.last.out \in {"virsh_fail", "exec_fail"}) =>
           /\ vm'.last.value = vm.cache.value
           /\ vm'.cache = vm.cache]_vars

(***************************************************************************)
(* SpecNet: the three byte-counter rate samplers.                          *)
(***************************************************************************)
InitNet ==
    /\ InitCache
    /\ \A id \in Ids : runtime[id] = "Up"
    /\ lastEvt = NoEvt
    /\ asm = IdleAsm
    /\ listener = ListenerUp
    /\ vm = VmBoot
    /\ \E kind \in Samplers : net = NetBoot(kind)
    /\ cpu = CpuIdle
    /\ pull = PullBoot
    /\ InitClients

SpecNet == InitNet /\ [][NextNet]_vars

\* C14: a rate reported for a cumulative byte counter is null or not negative
C14_RateNeverNegative ==
    ~net.out.rate.null => net.out.rate.v >= 0

\* C15: a sample whose elapsed time against the stored sample of its series is
\* <= 0 reports a null rate and leaves the stored sample as it was
C15_NoElapsedTimeKeepsSample ==
    [][LET key == IF net.kind = "ssh" THEN net.pending ELSE net.key
       IN  (/\ NetSample \/ NetSampleDone
            /\ net.lastNet # NoSample
            /\ net.lastNet.key = key
            /\ net.clock - net.lastNet.ts <= 0) =>
               /\ net'.out.rate.null
               /\ net'.lastNet = net.lastNet]_vars

\* C16: a sample with no stored sample, or with a stored sample of another
\* interface name, reports a null rate
C16_NewSeriesHasNoRate ==
    (/\ net.out.n > 0
     /\ net.out.prev = NoSample \/ net.out.prev.key # net.out.key) =>
        net.out.rate.null

\* the first sample after the interface name changed, with the sample of the old
\* name still stored, reported no rate
C16_Witness ==
    /\ net.kind = "ssh"
    /\ net.out.prev # NoSample
    /\ net.out.prev.key # net.out.key
    /\ net.out.now > net.out.prev.ts
    /\ net.out.rate.null

(***************************************************************************)
(* SpecCpu: collectCpuPercent over pairs of readings.                      *)
(***************************************************************************)
SpecCpu == InitEvents /\ [][NextCpu]_vars

\* C17: cpuPercent is within [0, 100] for every pair of readings, and 0 when
\* the counters did not move
C17_CpuPercentInRange ==
    cpu.pc = "done" =>
        /\ cpu.percent >= 0
        /\ cpu.percent <= 100 * 100
        /\ (cpu.second.idle = cpu.first.idle /\ cpu.second.total = cpu.first.total)
               => cpu.percent = 0

\* a pair of readings whose raw usage is negative was reported as 0
C17_Witness ==
    /\ cpu.pc = "done"
    /\ cpu.usage < 0
    /\ cpu.percent = 0

\* C18: when the total tick count decreased between the readings, cpuPercent is 0
C18_DecreasingCountersGiveZero ==
    (cpu.pc = "done" /\ cpu.second.total < cpu.first.total) => cpu.percent = 0

\* C19: a cycle in which the filesystem-usage query failed to execute, or printed
\* what cannot be parsed, reports the zero-value arrayUsage
C19_ArrayUsageFailureGivesZeros ==
    (/\ asm.phase = "done"
     /\ asm.result.kind = "snapshot"
     /\ asm.faults \cap {"df_exec", "df_cmd", "df_short"} # {}) =>
        asm.result.arrayUsage = "zero"

(***************************************************************************)
(* SpecPull: the pull-mode cache of stats:fetch.                           *)
(***************************************************************************)
SpecPull == InitEvents /\ [][NextPull]_vars

\* C20: a request that is not forced, with stats cached and less than the
\* effective refresh interval after the last successful fetch, is answered from
\* the cache with cached = true and starts no cycle; any other request starts
\* exactly one cycle, and its answer has cached = false
C20_PullCacheShortCircuits ==
    [][/\ \A force \in BOOLEAN :
            StatsFetch(force) =>
               LET seconds == IF pull.seconds = 0 THEN 30 ELSE pull.seconds
                   interval == IF seconds * 1000 < 5000 THEN 5000 ELSE seconds * 1000
               IN  IF /\ ~force
                      /\ pull.statsCache # NoStats
                      /\ pull.clock - pull.lastFetchTs < interval
                   THEN /\ pull'.reply.kind = "reply"
                        /\ pull'.reply.cached
                        /\ pull'.reply.stats = pull.statsCache
                        /\ pull'.started = 0
                        /\ pull'.fetches = pull.fetches
                   ELSE /\ pull'.started = 1
                        /\ pull'.fetches = pull.fetches \cup {pull.clock}
       /\ \A at \in pull.fetches :
            StatsFetchDone(at, TRUE) =>
               /\ pull'.reply.kind = "reply"
               /\ ~pull'.reply.cached
               /\ pull'.fetches = pull.fetches \ {at}]_vars

\* with the interval set below the floor, a request 4 s after the last successful
\* fetch was answered from the cache
C20_Witness ==
    /\ pull.seconds = 1
    /\ pull.reply.kind = "reply"
    /\ pull.reply.cached
    /\ pull.clock - pull.lastFetchTs = 4000

(***************************************************************************)
(* SpecRefresh: the refresh interval from the config file and the settings *)
(* form to the auto-refresh timer and the cache interval of stats:fetch.   *)
(***************************************************************************)
SpecRefresh == InitEvents /\ [][NextRefresh]_vars

\* C21: whatever number refreshIntervalSeconds holds, the cache interval applied
\* to a stats:fetch is at least 5000 ms and the auto-refresh timer has a period of
\* at least 5 s; config:update rejects a refresh interval below 5 and keeps the config
C21_RefreshFloor ==
    [][/\ ui'.last.fetch => ui'.last.ms >= 5000
       /\ ui'.refreshTimer # 0 => ui'.refreshTimer >= 5 * 1000
       /\ \A p \in Payloads :
            (SettingsSubmit(p) /\ p.hasRefresh /\ p.refresh < 5) =>
               /\ ~ui'.last.ok
               /\ ui'.config = ui.config
               /\ ui'.flow = "idle"]_vars

\* a refresh interval of 4 came from the config file; the timer runs at 5 s and a
\* stats:fetch was answered under a 5000 ms cache interval
C21_Witness ==
    /\ ui.config.refresh = 4
    /\ ui.refreshInterval = 4
    /\ ui.refreshTimer = 5000
    /\ ui.last.fetch
    /\ ui.last.ms = 5000

(***************************************************************************)
(* SpecPush: the tickers of the push server and their assembly cycles.     *)
(***************************************************************************)
SpecPush == InitEvents /\ [][NextPush]_vars

\* C22: in every second at most one assembly cycle is started, however many
\* clients are connected, and a result that is sent goes to every connected client
C22_OneCyclePerTick ==
    /\ push.started <= 1
    /\ push.last.op = "sent" => push.last.to = OpenClients(push)

\* what the push server holds for one client
ClientView(p, d) ==
    [conn |-> p.conn[d], timer |-> p.timer[d], due |-> p.due[d],
     cycles |-> CyclesOf(p, d), lastTs |-> p.lastTs[d]]

\* C23: the close of a client, a throwing send to it, its ticks and the end of its
\* cycles leave every other client as it was; the ticker of a connected client
\* keeps running and comes due every second, a tick that is due can start a cycle,
\* and the snapshot of a finished cycle is sent to its connected client
C23_ClientsDoNotBlockEachOther ==
    [][/\ \A c \in Clients : \A d \in Clients \ {c} :
            (\/ ClientClose(c)
             \/ \E hung \in BOOLEAN : IntervalFire(c, hung)
             \/ \E cy \in CyclesOf(push, c), out \in TickOutcomes : CycleDone(cy, out))
            => ClientView(push', d) = ClientView(push, d)
       /\ \A d \in Clients :
            /\ push'.conn[d] = "open" => push'.timer[d]
            /\ (SecondPasses /\ push.conn[d] = "open") => push'.due[d]
            /\ (push.due[d] /\ Cardinality(CyclesOf(push, d)) < MaxCycles)
                  => ENABLED IntervalFire(d, FALSE)
            /\ \A cy \in CyclesOf(push, d) :
                  (CycleDone(cy, "sent") /\ push.conn[d] = "open") =>
                     /\ push'.last.op = "sent"
                     /\ push'.last.to = {d}]_vars

\* after c1 closed and a send to it was dropped or threw, c2 is still served
C23_Witness ==
    /\ push.conn["c1"] = "closed"
    /\ push.conn["c2"] = "open"
    /\ push.timer["c2"]
    /\ push.last.op = "sent"
    /\ push.last.client = "c2"
    /\ push.now >= 2

(***************************************************************************)
(* SpecPushLive: SpecPush where every callback whose commands have all     *)
(* returned resumes.                                                       *)
(***************************************************************************)
SpecPushLive ==
    /\ InitEvents
    /\ [][NextPush]_vars
    /\ \A c \in Clients, t \in Seconds :
          WF_vars(\E out \in TickOutcomes :
                     CycleDone([client |-> c, start |-> t, hung |-> FALSE], out))

\* C24: every assembly cycle that is started comes to an end, also when one of
\* its commands never returns
C24_EveryCycleCompletes ==
    \A c \in Clients, t \in Seconds, hung \in BOOLEAN :
        ([client |-> c, start |-> t, hung |-> hung] \in push.cycles)
           ~> ([client |-> c, start |-> t, hung |-> hung] \notin push.cycles)

\* C25: the ts of the snapshots sent to a client never decreases in send order,
\* also when a cycle started later is sent before a cycle started earlier
C25_SentTsNonDecreasing ==
    [][\A c \in Clients :
          /\ push'.lastTs[c] >= push.lastTs[c]
          /\ (push'.last.op = "sent" /\ push'.last.client = c /\ push' # push)
                => push'.last.ts >= push.lastTs[c]]_vars

\* the snapshot just sent belongs to a cycle that started before the cycle of the
\* snapshot sent before it
C25_Witness ==
    /\ push.last.op = "sent"
    /\ push.last.reordered
    /\ push.last.ts >= 2

(***************************************************************************)
(* SpecRenderer: the transport wiring of the renderer.                     *)
(***************************************************************************)
SpecRenderer == InitEvents /\ [][NextRenderer]_vars

\* C26: every socket the renderer created, other than the one state.ws refers to,
\* is closing or closed, and only the socket of state.ws renders snapshots
C26_OneLiveSocket ==
    /\ \A s \in SocketIds : ui.sock[s] \in Live => ui.ws = s
    /\ ui.last.op = "message" => ui.last.sock = ui.ws

(***************************************************************************)
(* SpecRendererLive: SpecRenderer where a pending reconnect timer fires.   *)
(***************************************************************************)
SpecRendererLive == InitEvents /\ [][NextRenderer]_vars /\ WF_vars(ReconnectTimer)

C28_NoPollingInWsMode ==
    [][(ui'.hydrated /\ ui'.transport = "ws" /\ ui'.wsUrl # NoUrl /\ ui' # ui) =>
          /\ ui'.refreshTimer = 0
          /\ ~ui'.last.fetch
          /\ (RefreshClick /\ ui.ws # NoSocket) => (ui'.ws = ui.ws /\ ui'.sock = ui.sock)]_vars

\* the renderer is in ws mode with a wsUrl, no auto-refresh timer is set, and a
\* click on refresh issued no stats:fetch
C28_Witness ==
    /\ ui.hydrated
    /\ ui.transport = "ws"
    /\ ui.wsUrl = GoodUrl
    /\ ui.last.op = "click"
    /\ ~ui.last.fetch
    /\ ui.refreshTimer = 0

\* C29: in ssh mode no socket of the renderer is connecting or open and no
\* WebSocket message is rendered
C29_NoSocketInSshMode ==
    (ui.hydrated /\ ui.flow = "idle" /\ ui.transport = "ssh") =>
        /\ \A s \in SocketIds : ui.sock[s] \notin Live
        /\ ui.last.op # "message"

(***************************************************************************)
(* SpecNorm: the stats objects of the two transports.                      *)
(***************************************************************************)
SpecNorm == InitEvents /\ [][NextNorm]_vars

\* C30: the stats object built from a WS snapshot has the ten top-level fields
\* of the stats object of fetchStats, whatever the snapshot lacks
C30_SameTopLevelFields ==
    /\ norm.wsBuilt => DOMAIN norm.ws =
          {"cpuPercent", "uptimeSeconds", "uptimeHuman", "memory", "arrayUsage",
           "containers", "vms", "network", "hostname", "fetchedAt"}
    /\ (norm.wsBuilt /\ norm.sshBuilt) => DOMAIN norm.ws = DOMAIN norm.ssh

\* a snapshot without host and with null network and arrayUsage was converted, and
\* an SSH stats object exists to compare with
C30_Witness ==
    /\ norm.wsBuilt
    /\ norm.sshBuilt
    /\ norm.snapshot["host"] = "undefined"
    /\ norm.snapshot["network"] = "null"
    /\ norm.snapshot["arrayUsage"] = "null"
    /\ norm.ws.hostname = "null"

(***************************************************************************)
(* SpecPorts: parseDockerPorts on the segments docker ps can print.        *)
(***************************************************************************)
SpecPorts == InitEvents /\ [][NextPorts]_vars

\* C31: for a segment [hostIp:]hostPort->containerPort[/protocol] the result has
\* the whole host port and the whole container port, hostIp 0.0.0.0 when the
\* segment has no host IP and protocol tcp when it has none; a segment without
\* a mapping gives its text as display and no hostPort
C31_PortsParsedWhole ==
    /\ (ports.parsed /\ ports.kind = "mapping") =>
          /\ ports.out.mapped
          /\ ports.out.hostPort = ports.parts.hp
          /\ ports.out.containerPort = ports.parts.cp
          /\ ports.out.hostIp = (IF ports.parts.ip = <<>> THEN DefaultIp ELSE ports.parts.ip)
          /\ ports.out.protocol = (IF ports.parts.proto = <<>> THEN Tcp ELSE ports.parts.proto)
    /\ (ports.parsed /\ ports.kind = "bare") =>
          /\ ~ports.out.mapped
          /\ ports.out.hostPort = <<>>
          /\ ports.out.display = ports.segment

\* C33: at most one docker events listener is running and at most one restart
\* is pending, whatever events a failed or exited child emits
C33_OneListenerOneRestart ==
    /\ listener.children <= 1
    /\ listener.timers <= 1

\* C34: with several get() calls polling at once the time stamp of the VM cache
\* never goes back: a poll that started earlier does not replace the result of
\* a poll that started later
C34_VmCacheTsNeverDecreases == [][vm'.cache.ts >= vm.cache.ts]_vars

\* C36: a request whose fetchStats() rejects is rejected to the caller and
\* leaves statsCache and lastFetchTs as they were
C36_FailedFetchNotCached ==
    [][\A at \in pull.fetches :
          StatsFetchDone(at, FALSE) =>
             /\ pull'.reply.kind = "rejected"
             /\ pull'.statsCache = pull.statsCache
             /\ pull'.lastFetchTs = pull.lastFetchTs]_vars

\* a fetch failed while stats of an earlier fetch were cached, and they still are
C36_Witness ==
    /\ pull.reply.kind = "rejected"
    /\ pull.statsCache # NoStats
    /\ pull.lastFetchTs < pull.clock

(***************************************************************************)
(* SpecPullHosts: stats:fetch while the config is pointed at another host. *)
(***************************************************************************)
SpecPullHosts == InitEvents /\ [][NextPullHosts]_vars

\* C35: after the config was updated or reloaded, statsCache holds no stats
\* collected under an earlier config, and a request answered from the cache
\* gets stats collected under the config in force
C35_NoStatsOfEarlierConfig ==
    [][/\ pull'.statsCache # NoStats => pull'.statsCache.host = pull'.host
       /\ \A force \in BOOLEAN :
            (StatsFetch(force) /\ pull'.reply.cached) => pull'.reply.stats.host = pull.host]_vars

(***************************************************************************)
(* SpecStore: the config handlers of the main process.                     *)
(***************************************************************************)
SpecStore == InitEvents /\ [][NextStore]_vars

\* the transition is a config:update answering a request
IsUpdate == store.reply = NoReply /\ store'.reply.op = "update"

\* C32: a successful config:update removes the password of config.json when the
\* payload has clearPassword, replaces it when the payload has a non-empty
\* password, and leaves it otherwise; a field of the file that is not a mutable
\* field is kept
C32_PasswordKeptUnlessChanged ==
    [][IsUpdate =>
         LET p == store'.payload
         IN  /\ (store'.reply.success /\ p.clearPassword) =>
                   store'.file.password = Undefined
             /\ (store'.reply.success /\ ~p.clearPassword /\ p.password \notin {Undefined, ""}) =>
                   store'.file.password = p.password
             /\ (~p.clearPassword /\ p.password \in {Undefined, ""}) =>
                   store'.file.password = store.file.password
             /\ store'.file.theme = store.file.theme]_vars

\* an update of the port alone was saved: the password and the other field of
\* the file are still there
C32_Witness ==
    /\ store.reply.op = "update"
    /\ store.reply.success
    /\ store.payload.port = Num(22220)
    /\ store.payload.password = Undefined
    /\ ~store.payload.clearPassword
    /\ store.file.port = Num(2222)
    /\ store.file.password = "pw1"
    /\ store.file.theme = "dark"

\* the payload is one the settings must refuse: not an object, a port given that
\* is not an integer in 1..65535, a refresh interval given that is not a number
\* of at least 5, an authMethod or a transport given that is not one of the two
\* words (in any case of letters)
InvalidPayload(p) ==
    \/ p.kind \in {"null", "string"}
    \/ /\ p.port \notin {NotGiven, BlankText}
       /\ ~(/\ p.port.t = "number"
            /\ \E n \in {p.port.v \div 10} : p.port.v = 10 * n /\ n \in 1..65535)
    \/ /\ p.refreshIntervalSeconds \notin {NotGiven, BlankText}
       /\ ~(p.refreshIntervalSeconds.t = "number" /\ p.refreshIntervalSeconds.v >= 50)
    \/ /\ p.authMethod # NoText
       /\ toLowerCase(p.authMethod) \notin {PasswordAuth, KeyAuth}
    \/ /\ p.transport # NoText
       /\ toLowerCase(p.transport) \notin {SshWord, WsWord}

\* C37: a config:update with an invalid payload answers success = false and
\* leaves config.json, the config in memory, statsCache and the stored network
\* sample as they were
C37_InvalidUpdateChangesNothing ==
    [][(IsUpdate /\ InvalidPayload(store'.payload)) =>
         /\ ~store'.reply.success
         /\ store'.file = store.file
         /\ store'.config = store.config
         /\ store'.statsCache = store.statsCache
         /\ store'.lastNetSample = store.lastNetSample]_vars

\* an update with port 65536 was refused while stats and a network sample were
\* cached and the file held a password
C37_Witness ==
    /\ store.reply.op = "update"
    /\ ~store.reply.success
    /\ store.payload.port = Num(655360)
    /\ store.statsCache
    /\ store.lastNetSample
    /\ store.file.password = "pw1"

\* the same main process with another non-empty password configured
Twin(st, pw) ==
    [st EXCEPT !.config.password = pw,
               !.file.password = IF @ \in {Undefined, ""} THEN @ ELSE pw]

\* C38: with a non-empty password configured, the reply of config:get,
\* config:edit and config:update is the one the handler gives when any other
\* non-empty password is configured
C38_RepliesHidePassword ==
    [][(store.reply = NoReply /\ store'.reply.op # "none"
          /\ store.config.password \notin {Undefined, ""}) =>
         \A pw \in Secrets :
            store'.reply =
               (CASE store'.reply.op = "get" -> configGet(Twin(store, pw)).reply
                  [] store'.reply.op = "edit" -> configEdit(Twin(store, pw)).reply
                  [] OTHER -> configUpdate(Twin(store, pw), store'.payload).reply)]_vars

\* an update that did not touch the password answered with the stored password
\* masked
C38_Witness ==
    /\ store.reply.op = "update"
    /\ store.reply.success
    /\ store.payload.password = Undefined
    /\ ~store.payload.clearPassword
    /\ store.config.password = "pw1"
    /\ store.reply.config.password = Mask

====
